---- MODULE Spec2Model ----
(***************************************************************************)
(* A model of the storefront back end (Express routes over MongoDB) and of *)
(* the client cart reducer.                                                 *)
(*                                                                          *)
(* Money is counted in units of 1/100 cent, so that the 8% tax of an        *)
(* amount of whole cents is an integer: $9.99 is 99900, $100 is 1000000.    *)
(*                                                                          *)
(* A route handler is an async function: it runs without interruption from  *)
(* one await to the next.  The order and review handlers are modelled one   *)
(* action per await-delimited step, executed by a request slot; other       *)
(* requests may run between two steps when more than one slot is in use.    *)
(***************************************************************************)
EXTENDS Integers, Sequences, FiniteSets, TLC

\* ------------------------------------------------------------------ bounds
MaxStock == 2
MaxQty == 2
MaxLines == 2
MaxOrders == 2
MaxInflight == 2
MaxRequests == 2
MaxReviews == 3

\* ------------------------------------------------------------ catalogue data
Products == {"p1", "p2"}
Users == {"u1", "u2"}
Admins == {"adm"}
Actors == Users \cup Admins
NoVariant == "none"
\* p1 has one variant, "v1"; p2 has none
Variants == [p1 |-> {"v1"}, p2 |-> {}]
Cents(c) == c * 100
Price == [p1 |-> Cents(5000), p2 |-> Cents(1250)]
PriceModifier == [v1 |-> Cents(500)]
Merchants == {"m1", "m2"}
NoMerchant == "none"
\* Product.merchant: p1 is m1's, p2 has no merchant, m2 owns no product
Merchant == [p1 |-> "m1", p2 |-> NoMerchant]
\* the roles the users registered with
InitialRole(a) ==
  IF a \in Admins THEN "admin" ELSE IF a \in Merchants THEN "merchant" ELSE "user"

OrderStatuses ==
  {"pending", "confirmed", "processing", "shipped", "delivered", "cancelled", "returned"}

VARIABLES
  stock,    \* Product.stock, per product
  cart,     \* the Cart document per user: whether it exists, and its items
  orders,   \* the Order collection, in creation order
  req,      \* the in-flight requests, per slot
  last,     \* the response of the request that completed most recently
  stock0,   \* history: Product.stock at the start
  cancels,  \* history: the number of cancel requests that succeeded
  started,  \* history: the number of interleaved requests started
  client,   \* the client cart provider: items and isLoading of its reducer
            \* state, and the isAuthenticated its load effect ran with (seen)
  isAuth,   \* whether the client session is authenticated
  reviews,  \* the Review collection
  rating,   \* Product.rating per product, in tenths
  reviewCount, \* Product.reviewCount per product
  nextId,   \* the number of Review documents created so far
  role,     \* User.role per user; "gone" for a user that was deleted
  catalog,  \* the Product documents: whether each exists, and its merchant
  storage,  \* the client's localStorage entry 'cart'
  auth,     \* the auth provider: user, token and isLoading of its state, the
            \* localStorage entries 'auth_token' and 'user', the call in flight
  wishlist, \* the items of the Wishlist document per user, as product ids
  wish      \* the items of the client wishlist reducer, as product ids

hist == <<stock0, cancels, started>>
clientV == <<client, isAuth, storage, auth>>
wishV == <<wishlist, wish>>
reviewV == <<reviews, rating, reviewCount, nextId>>
siteV == <<role, catalog>>
vars == <<stock, cart, orders, req, last, hist, clientV, wishV, reviewV, siteV>>

\* the role of the User document the token of a request resolves to
Role(a) == role[a]

\* middleware protect: the token's user is still there
Protect(actor) == Role(actor) # "gone"

\* the price of the Product document
ProductPrice(p) == catalog[p].price

Slots == 1..MaxInflight

\* ------------------------------------------------------------- request state
NoSnap ==
  [stock |-> <<>>, cart |-> <<>>, orders |-> <<>>, reviews |-> {},
   role |-> <<>>, catalog |-> <<>>, wishlist |-> <<>>]
NoAdd == [product |-> "-", variant |-> "-", quantity |-> 0]
NoTotals == [subtotal |-> -1, discount |-> -1, shipping |-> -1, tax |-> -1, total |-> -1]
Idle ==
  [type |-> "idle", user |-> "-", pc |-> "-", oid |-> 0, arg |-> "-",
   items |-> <<>>, i |-> 0, pstock |-> 0, oitems |-> <<>>, subtotal |-> 0,
   rating |-> 0, modified |-> FALSE, found |-> {}, body |-> "-", bstock |-> {}, bprice |-> {},
   brating |-> {}, bcount |-> {}, page |-> 1, limit |-> 0, shown |-> 0,
   pre |-> NoSnap]
NoResp ==
  [op |-> "none", user |-> "-", code |-> 0, oid |-> 0, arg |-> "-", line |-> 0,
   add |-> NoAdd, totals |-> NoTotals, data |-> {}, total |-> 0, shown |-> 0,
   pre |-> NoSnap]

InFlight == {s \in Slots : req[s].type # "idle"}

\* The database as the request found it, kept for the response record when
\* requests run one at a time (track); not kept when they interleave.
Snap(track) ==
  IF track
  THEN [stock |-> stock, cart |-> cart, orders |-> orders, reviews |-> reviews,
        role |-> role, catalog |-> catalog, wishlist |-> wishlist]
  ELSE NoSnap

\* Interleaved runs are explored up to MaxRequests requests.
Count(track) ==
  IF track THEN started' = started
  ELSE started < MaxRequests /\ started' = started + 1

\* The response is recorded for the requests that recorded what they found.
Resp(rq, code) ==
  IF rq.pre = NoSnap THEN NoResp
  ELSE [op |-> rq.type, user |-> rq.user, code |-> code,
        oid |-> rq.oid, arg |-> rq.arg, line |-> 0,
        add |-> NoAdd, totals |-> NoTotals, data |-> {}, total |-> 0,
        shown |-> rq.shown, pre |-> rq.pre]

Respond(s, code) ==
  /\ last' = Resp(req[s], code)
  /\ req' = [req EXCEPT ![s] = Idle]

\* a response that carries data
RespondData(s, code, data) ==
  /\ last' = IF req[s].pre = NoSnap THEN NoResp
             ELSE [Resp(req[s], code) EXCEPT !.data = data]
  /\ req' = [req EXCEPT ![s] = Idle]

\* ------------------------------------------------------------------- totals
\* orders.js:59 -- the cart is populated with 'items.product' only, so
\* item.variant is an id and item.variant?.priceModifier is undefined
OrderLinePrice(item) == ProductPrice(item.product) + 0

\* orders.js:78
OrderShipping(subtotal) == IF subtotal >= Cents(10000) THEN 0 ELSE Cents(999)

\* orders.js:81
OrderTax(subtotal) == (subtotal * 8) \div 100

\* orders.js:84
OrderTotal(subtotal) == subtotal + OrderShipping(subtotal) + OrderTax(subtotal)

\* ------------------------------------------------------- POST /api/orders
\* a stock test that only asks that some stock is left
InsufficientStockIfNone(pstock, quantity) == pstock < 1

\* mutant: no stock test
InsufficientStockNever(pstock, quantity) == FALSE

\* orders.js:52
InsufficientStock(pstock, quantity) == pstock < quantity

\* mutant: one unit is taken whatever the quantity
DecrementedStockByOne(pstock, quantity) == pstock - 1

\* orders.js:70
DecrementedStock(pstock, quantity) == pstock - quantity

StartCreate(s, u, track) ==
  /\ req[s].type = "idle"
  /\ Len(orders) + Cardinality({t \in Slots : req[t].type = "create"}) < MaxOrders
  /\ req' = [req EXCEPT ![s] =
       [Idle EXCEPT !.type = "create", !.user = u, !.pc = "readCart", !.pre = Snap(track)]]
  /\ last' = NoResp
  /\ Count(track) /\ UNCHANGED <<stock, cart, orders, stock0, cancels, clientV, wishV, reviewV, siteV>>

\* orders.js:28-36
CreateReadCart(s) ==
  /\ req[s].type = "create" /\ req[s].pc = "readCart"
  /\ LET items == cart[req[s].user].items IN
       IF ~Protect(req[s].user) THEN Respond(s, 401)
       ELSE IF ~cart[req[s].user].exists \/ Len(items) = 0
       THEN Respond(s, 400)
       ELSE /\ req' = [req EXCEPT ![s].items = items, ![s].i = 1, ![s].pc = "findProduct"]
            /\ UNCHANGED last
  /\ UNCHANGED <<stock, cart, orders, hist, clientV, wishV, reviewV, siteV>>

\* orders.js:43-70: Product.findById, the stock check, the order line and the
\* decrement of the loaded document
CreateFindProduct(s) ==
  /\ req[s].type = "create" /\ req[s].pc = "findProduct"
  /\ LET item == req[s].items[req[s].i]
         pstock == stock[item.product]
     IN IF ~catalog[item.product].exists THEN Respond(s, 404)
        ELSE IF InsufficientStock(pstock, item.quantity)
        THEN Respond(s, 400)
        ELSE /\ req' = [req EXCEPT
                  ![s].subtotal = @ + OrderLinePrice(item) * item.quantity,
                  ![s].oitems = Append(@, [product |-> item.product,
                                           quantity |-> item.quantity,
                                           variant |-> item.variant,
                                           price |-> ProductPrice(item.product)]),
                  ![s].pstock = DecrementedStock(pstock, item.quantity),
                  ![s].pc = "saveProduct"]
             /\ UNCHANGED last
  /\ UNCHANGED <<stock, cart, orders, hist, clientV, wishV, reviewV, siteV>>

\* orders.js:71: product.save() writes the document's stock
CreateSaveProduct(s) ==
  /\ req[s].type = "create" /\ req[s].pc = "saveProduct"
  /\ stock' = [stock EXCEPT ![req[s].items[req[s].i].product] = req[s].pstock]
  /\ req' = [req EXCEPT
       ![s].i = @ + 1,
       ![s].pc = IF req[s].i < Len(req[s].items) THEN "findProduct" ELSE "createOrder"]
  /\ UNCHANGED <<cart, orders, last, hist, clientV, wishV, reviewV, siteV>>

\* orders.js:74-99
NewOrder(user, oitems, subtotal) ==
  [user |-> user, items |-> oitems, status |-> "pending",
   subtotal |-> subtotal, discount |-> 0, shipping |-> OrderShipping(subtotal),
   tax |-> OrderTax(subtotal), total |-> OrderTotal(subtotal)]

CreateOrder(s) ==
  /\ req[s].type = "create" /\ req[s].pc = "createOrder"
  /\ orders' = Append(orders, NewOrder(req[s].user, req[s].oitems, req[s].subtotal))
  /\ req' = [req EXCEPT ![s].oid = Len(orders) + 1, ![s].pc = "clearCart"]
  /\ UNCHANGED <<stock, cart, last, hist, clientV, wishV, reviewV, siteV>>

\* orders.js:102
ClearedItems(items) == <<>>

\* orders.js:101-113
CreateClearCart(s) ==
  /\ req[s].type = "create" /\ req[s].pc = "clearCart"
  /\ cart' = [cart EXCEPT ![req[s].user].items = ClearedItems(@)]
  /\ Respond(s, 201)
  /\ UNCHANGED <<stock, orders, hist, clientV, wishV, reviewV, siteV>>

\* ------------------------------------------------ PUT /api/orders/:id/cancel
\* mutant: a shipped order can be cancelled
CancelRejectedNotShipped == {"cancelled", "delivered"}

\* orders.js:284
CancelRejected == {"cancelled", "delivered", "shipped"}

\* mutant: the quantity is not added back
RestoredStockNone(pstock, quantity) == pstock

\* orders.js:295
RestoredStock(pstock, quantity) == pstock + quantity

\* orders.js:276
IsOwner(order, user) == order.user = user

\* the quantity of product p on the lines of items
RECURSIVE QuantityOf(_, _)
QuantityOf(items, p) ==
  IF items = <<>> THEN 0
  ELSE (IF Head(items).product = p THEN Head(items).quantity ELSE 0)
       + QuantityOf(Tail(items), p)

\* stock is modelled up to MaxStock: a cancel that would restore beyond it is
\* not issued
RestoreWithinBound(o) ==
  o \in DOMAIN orders =>
    \A p \in Products : stock[p] + QuantityOf(orders[o].items, p) <= MaxStock

StartCancel(s, u, o, track) ==
  /\ req[s].type = "idle"
  /\ RestoreWithinBound(o)
  /\ req' = [req EXCEPT ![s] =
       [Idle EXCEPT !.type = "cancel", !.user = u, !.oid = o, !.pc = "findOrder",
                    !.pre = Snap(track)]]
  /\ last' = NoResp
  /\ Count(track) /\ UNCHANGED <<stock, cart, orders, stock0, cancels, clientV, wishV, reviewV, siteV>>

\* orders.js:266-289
CancelFindOrder(s) ==
  /\ req[s].type = "cancel" /\ req[s].pc = "findOrder"
  /\ IF ~Protect(req[s].user) THEN Respond(s, 401)
     ELSE IF req[s].oid \notin DOMAIN orders THEN Respond(s, 404)
     ELSE LET order == orders[req[s].oid] IN
       IF ~IsOwner(order, req[s].user) THEN Respond(s, 403)
       ELSE IF order.status \in CancelRejected THEN Respond(s, 400)
       ELSE /\ req' = [req EXCEPT ![s].items = order.items, ![s].i = 1,
                                    ![s].pc = "findProduct"]
            /\ UNCHANGED last
  /\ UNCHANGED <<stock, cart, orders, hist, clientV, wishV, reviewV, siteV>>

\* orders.js:293-295
CancelFindProduct(s) ==
  /\ req[s].type = "cancel" /\ req[s].pc = "findProduct"
  /\ LET item == req[s].items[req[s].i] IN
       req' = [req EXCEPT
         ![s].pstock = RestoredStock(stock[item.product], item.quantity),
         ![s].pc = "saveProduct"]
  /\ UNCHANGED <<stock, cart, orders, last, hist, clientV, wishV, reviewV, siteV>>

\* orders.js:296
CancelSaveProduct(s) ==
  /\ req[s].type = "cancel" /\ req[s].pc = "saveProduct"
  /\ stock' = [stock EXCEPT ![req[s].items[req[s].i].product] = req[s].pstock]
  /\ req' = [req EXCEPT
       ![s].i = @ + 1,
       ![s].pc = IF req[s].i < Len(req[s].items) THEN "findProduct" ELSE "saveOrder"]
  /\ UNCHANGED <<cart, orders, last, hist, clientV, wishV, reviewV, siteV>>

\* mutant: the save writes the populated products' prices into the lines
SavedOrderRepriced(order, st) ==
  [order EXCEPT !.status = st,
                !.items = [i \in DOMAIN order.items |->
                             [order.items[i] EXCEPT !.price = ProductPrice(order.items[i].product)]]]

\* orders.js:300-301, 370-382: order.save() writes the modified path, status
SavedOrder(order, st) == [order EXCEPT !.status = st]

\* orders.js:300-307: order.save() writes the modified path, status
CancelSaveOrder(s) ==
  /\ req[s].type = "cancel" /\ req[s].pc = "saveOrder"
  /\ orders' = [orders EXCEPT ![req[s].oid] = SavedOrder(@, "cancelled")]
  /\ Respond(s, 200)
  /\ cancels' = IF req[s].pre = NoSnap THEN cancels ELSE cancels + 1
  /\ UNCHANGED <<stock, cart, stock0, started, clientV, wishV, reviewV, siteV>>

\* ------------------------------------------------ PUT /api/orders/:id/status
AuthorizeAnyone(actor, roles) == TRUE

\* middleware authorize(...roles): the caller's role must be one of the roles
Authorize(actor, roles) == Role(actor) \in roles

\* mutant: any value of the body is a status
ValidStatusAny(st) == TRUE

\* orders.js:317
ValidStatus(st) == st \in OrderStatuses

StartStatus(s, a, o, st, track) ==
  /\ req[s].type = "idle"
  /\ req' = [req EXCEPT ![s] =
       [Idle EXCEPT !.type = "status", !.user = a, !.oid = o, !.arg = st,
                    !.pc = "findOrder", !.pre = Snap(track)]]
  /\ last' = NoResp
  /\ Count(track) /\ UNCHANGED <<stock, cart, orders, stock0, cancels, clientV, wishV, reviewV, siteV>>

HasMerchantProductAlways(order, merchantId) == TRUE

\* orders.js:342-361: some item's populated product has the caller as merchant
HasMerchantProduct(order, merchantId) ==
  \E i \in DOMAIN order.items :
    /\ catalog[order.items[i].product].exists
    /\ catalog[order.items[i].product].merchant = merchantId

\* orders.js:316-370
StatusFindOrder(s) ==
  /\ req[s].type = "status" /\ req[s].pc = "findOrder"
  /\ IF ~Protect(req[s].user) THEN Respond(s, 401)
     ELSE IF ~Authorize(req[s].user, {"admin", "merchant"}) THEN Respond(s, 403)
     ELSE IF ~ValidStatus(req[s].arg) THEN Respond(s, 400)
     ELSE IF req[s].oid \notin DOMAIN orders THEN Respond(s, 404)
     ELSE IF Role(req[s].user) = "merchant"
             /\ ~HasMerchantProduct(orders[req[s].oid], req[s].user)
       THEN Respond(s, 403)
     ELSE /\ req' = [req EXCEPT ![s].pc = "saveOrder"]
          /\ UNCHANGED last
  /\ UNCHANGED <<stock, cart, orders, hist, clientV, wishV, reviewV, siteV>>

\* orders.js:370-392
StatusSaveOrder(s) ==
  /\ req[s].type = "status" /\ req[s].pc = "saveOrder"
  /\ orders' = [orders EXCEPT ![req[s].oid] = SavedOrder(@, req[s].arg)]
  /\ Respond(s, 200)
  /\ UNCHANGED <<stock, cart, hist, clientV, wishV, reviewV, siteV>>

\* ------------------------------------------ GET /api/orders, /api/orders/:id
\* orders.js:124: const { page = 1, limit = 10 } = req.query
DefaultLimit == 10

\* a request of page `page` with `limit` orders a page
StartListPage(s, a, page, limit, track) ==
  /\ req[s].type = "idle"
  /\ req' = [req EXCEPT ![s] =
       [Idle EXCEPT !.type = "listOrders", !.user = a, !.pc = "find",
                    !.page = page, !.limit = limit, !.pre = Snap(track)]]
  /\ last' = NoResp
  /\ UNCHANGED <<stock, cart, orders, hist, clientV, wishV, reviewV, siteV>>

\* a request without page and limit
StartListOrders(s, a, track) == StartListPage(s, a, 1, DefaultLimit, track)

StartGetOrder(s, a, o, track) ==
  /\ req[s].type = "idle"
  /\ req' = [req EXCEPT ![s] =
       [Idle EXCEPT !.type = "getOrder", !.user = a, !.oid = o, !.pc = "find",
                    !.pre = Snap(track)]]
  /\ last' = NoResp
  /\ UNCHANGED <<stock, cart, orders, hist, clientV, wishV, reviewV, siteV>>

\* orders.js:128-139: the query; a merchant's and an admin's is empty
QueryMatches(a, o) == Role(a) \in {"merchant", "admin"} \/ orders[o].user = a

\* orders.js:154-157: find(query).sort({ createdAt: -1 }).skip(skip)
\* .limit(limitNum * 2), the orders named by their position in `orders`
FoundOrders(a, page, limit) ==
  LET Matches(o) == QueryMatches(a, o)
      newestFirst == [i \in 1..Len(orders) |-> Len(orders) + 1 - i]
      matched == SelectSeq(newestFirst, Matches)
      skip == (page - 1) * limit
      upto == IF skip + limit * 2 < Len(matched) THEN skip + limit * 2 ELSE Len(matched)
  IN SubSeq(matched, skip + 1, upto)

\* orders.js:168-193: a merchant's orders are filtered and cut to the limit
PageOrders(a, page, limit) ==
  LET Own(o) == HasMerchantProduct(orders[o], a)
      found == FoundOrders(a, page, limit)
      own == SelectSeq(found, Own)
  IN IF Role(a) = "merchant"
     THEN SubSeq(own, 1, IF Len(own) < limit THEN Len(own) ELSE limit)
     ELSE found

\* orders.js:211: Order.countDocuments(query)
PageTotal(a) == Cardinality({o \in 1..Len(orders) : QueryMatches(a, o)})

Range(seq) == {seq[i] : i \in DOMAIN seq}

\* orders.js:122-226
ListOrders(s) ==
  /\ req[s].type = "listOrders" /\ req[s].pc = "find"
  /\ IF ~Protect(req[s].user) THEN Respond(s, 401)
     ELSE /\ last' = IF req[s].pre = NoSnap THEN NoResp
                     ELSE [Resp(req[s], 200) EXCEPT
                             !.data = Range(PageOrders(req[s].user, req[s].page, req[s].limit)),
                             !.total = PageTotal(req[s].user)]
          /\ req' = [req EXCEPT ![s] = Idle]
  /\ UNCHANGED <<stock, cart, orders, hist, clientV, wishV, reviewV, siteV>>

\* orders.js:233-235: populate('user') leaves null for a user that is gone
PopulatedUser(order) == IF Protect(order.user) THEN order.user ELSE "null"

\* orders.js:231-259; order.user._id of a null user throws, and the catch-all
\* answers 500
GetOrder(s) ==
  /\ req[s].type = "getOrder" /\ req[s].pc = "find"
  /\ IF ~Protect(req[s].user) THEN Respond(s, 401)
     ELSE IF req[s].oid \notin 1..Len(orders) THEN Respond(s, 404)
     ELSE IF Role(req[s].user) # "admin"
             /\ PopulatedUser(orders[req[s].oid]) = "null" THEN Respond(s, 500)
     ELSE IF Role(req[s].user) # "admin"
             /\ PopulatedUser(orders[req[s].oid]) # req[s].user THEN Respond(s, 403)
     ELSE RespondData(s, 200, {req[s].oid})
  /\ UNCHANGED <<stock, cart, orders, hist, clientV, wishV, reviewV, siteV>>

\* ------------------------------------------------- /api/users, /api/admin
UserRoles == {"user", "merchant", "admin"}

\* a request of a users or admin route: type names the route, arg the :id of
\* the URL, body the role of the body ("-" when the body has none)
StartUserRequest(s, a, type, target, body, track) ==
  /\ req[s].type = "idle"
  /\ req' = [req EXCEPT ![s] =
       [Idle EXCEPT !.type = type, !.user = a, !.arg = target, !.body = body,
                    !.pc = "route", !.pre = Snap(track)]]
  /\ last' = NoResp
  /\ UNCHANGED <<stock, cart, orders, hist, clientV, wishV, reviewV, siteV>>

\* users.js:10-52, GET /api/users
ListUsers(s) ==
  /\ req[s].type = "listUsers" /\ req[s].pc = "route"
  /\ IF ~Protect(req[s].user) THEN Respond(s, 401)
     ELSE IF ~Authorize(req[s].user, {"admin"}) THEN Respond(s, 403)
     ELSE RespondData(s, 200, {a \in DOMAIN role : role[a] # "gone"})
  /\ UNCHANGED <<stock, cart, orders, hist, clientV, wishV, reviewV, siteV>>

\* users.js:88-119, PUT /api/users/:id
UpdateUser(s) ==
  /\ req[s].type = "updateUser" /\ req[s].pc = "route"
  /\ IF ~Protect(req[s].user) THEN Respond(s, 401) /\ UNCHANGED role
     ELSE IF ~Authorize(req[s].user, {"admin"}) THEN Respond(s, 403) /\ UNCHANGED role
     ELSE IF ~Protect(req[s].arg) THEN Respond(s, 404) /\ UNCHANGED role
     ELSE /\ role' = IF req[s].body = "-" THEN role
                     ELSE [role EXCEPT ![req[s].arg] = req[s].body]
          /\ Respond(s, 200)
  /\ UNCHANGED <<stock, cart, orders, hist, clientV, wishV, reviewV, catalog>>

\* users.js:124-151, DELETE /api/users/:id
DeleteUser(s) ==
  /\ req[s].type = "deleteUser" /\ req[s].pc = "route"
  /\ IF ~Protect(req[s].user) THEN Respond(s, 401) /\ UNCHANGED role
     ELSE IF ~Authorize(req[s].user, {"admin"}) THEN Respond(s, 403) /\ UNCHANGED role
     ELSE IF req[s].arg = req[s].user THEN Respond(s, 400) /\ UNCHANGED role
     ELSE IF ~Protect(req[s].arg) THEN Respond(s, 404) /\ UNCHANGED role
     ELSE /\ role' = [role EXCEPT ![req[s].arg] = "gone"]
          /\ Respond(s, 200)
  /\ UNCHANGED <<stock, cart, orders, hist, clientV, wishV, reviewV, catalog>>

\* part_003:9-40, GET /api/admin/stats: the counts of users, products, orders
AdminStats(s) ==
  /\ req[s].type = "stats" /\ req[s].pc = "route"
  /\ IF ~Protect(req[s].user) THEN Respond(s, 401)
     ELSE IF ~Authorize(req[s].user, {"admin"}) THEN Respond(s, 403)
     ELSE RespondData(s, 200,
            {<<"totalUsers", Cardinality({a \in DOMAIN role : role[a] # "gone"})>>,
             <<"totalProducts", Cardinality({p \in Products : catalog[p].exists})>>,
             <<"totalOrders", Len(orders)>>})
  /\ UNCHANGED <<stock, cart, orders, hist, clientV, wishV, reviewV, siteV>>

\* ------------------------------------------------------ /api/products/:id
\* a PUT or DELETE of product p: body is the merchant of the body ("-" when
\* the body has none), bstock the stock of the body (empty when it has none)
StartProductRequest(s, a, type, p, body, bstock, track) ==
  /\ req[s].type = "idle"
  /\ req' = [req EXCEPT ![s] =
       [Idle EXCEPT !.type = type, !.user = a, !.arg = p, !.body = body,
                    !.bstock = bstock, !.pc = "findProduct", !.pre = Snap(track)]]
  /\ last' = NoResp
  /\ UNCHANGED <<stock, cart, orders, hist, clientV, wishV, reviewV, siteV>>

\* a PUT of product p whose body is a price
StartPriceUpdate(s, a, p, price, track) ==
  /\ req[s].type = "idle"
  /\ req' = [req EXCEPT ![s] =
       [Idle EXCEPT !.type = "updateProduct", !.user = a, !.arg = p,
                    !.bprice = {price}, !.pc = "findProduct", !.pre = Snap(track)]]
  /\ last' = NoResp
  /\ UNCHANGED <<stock, cart, orders, hist, clientV, wishV, reviewV, siteV>>

\* a PUT of product p whose body names a rating and a reviewCount
StartRatedUpdate(s, a, p, r, n, track) ==
  /\ req[s].type = "idle"
  /\ req' = [req EXCEPT ![s] =
       [Idle EXCEPT !.type = "updateProduct", !.user = a, !.arg = p,
                    !.brating = {r}, !.bcount = {n}, !.pc = "findProduct",
                    !.pre = Snap(track)]]
  /\ last' = NoResp
  /\ UNCHANGED <<stock, cart, orders, hist, clientV, wishV, reviewV, siteV>>

\* a POST of a product that is not in the catalogue yet; brating and bcount
\* are the rating and the reviewCount of the body (empty when it has none)
StartCreateProduct(s, a, p, brating, bcount, track) ==
  /\ req[s].type = "idle"
  /\ ~catalog[p].exists
  /\ req' = [req EXCEPT ![s] =
       [Idle EXCEPT !.type = "createProduct", !.user = a, !.arg = p,
                    !.brating = brating, !.bcount = bcount, !.pc = "create",
                    !.pre = Snap(track)]]
  /\ last' = NoResp
  /\ UNCHANGED <<stock, cart, orders, hist, clientV, wishV, reviewV, siteV>>

\* the value of a field of the body, or the value it has without
BodyOr(field, default) == IF field = {} THEN default ELSE CHOOSE n \in field : TRUE

\* part_005:318-321, 387: the body is spread into the document, the derived
\* fields rating and reviewCount included
WrittenDerived(field, current) == BodyOr(field, current)

\* part_005:301-348, POST /api/products: the merchant is the caller when the
\* caller is a merchant
CreateProduct(s) ==
  /\ req[s].type = "createProduct" /\ req[s].pc = "create"
  /\ LET p == req[s].arg
         made == Protect(req[s].user) /\ Authorize(req[s].user, {"admin", "merchant"})
     IN /\ catalog' = IF ~made THEN catalog
                      ELSE [catalog EXCEPT ![p] =
                        [exists |-> TRUE,
                         merchant |-> IF Role(req[s].user) = "merchant"
                                      THEN req[s].user ELSE NoMerchant,
                         price |-> Price[p]]]
        /\ stock' = IF made THEN [stock EXCEPT ![p] = MaxStock] ELSE stock
        /\ rating' = IF made THEN [rating EXCEPT ![p] = WrittenDerived(req[s].brating, 0)]
                     ELSE rating
        /\ reviewCount' =
             IF made THEN [reviewCount EXCEPT ![p] = WrittenDerived(req[s].bcount, 0)]
             ELSE reviewCount
        /\ Respond(s, IF ~Protect(req[s].user) THEN 401 ELSE IF made THEN 201 ELSE 403)
  /\ UNCHANGED <<cart, orders, hist, clientV, wishV, reviews, nextId, role>>

\* part_005:359: body('stock').optional().isInt({ min: 0 })
ValidProductBody(bstock) == \A n \in bstock : n >= 0

\* part_005:358: body('price').optional().isFloat({ min: 0 })
ValidPriceBody(bprice) == \A n \in bprice : n >= 0

NotOwnMerchantNever(product, a) == FALSE

\* part_005:380, 430: the caller is a merchant and the product's merchant
\* is not the caller (a product without merchant included)
NotOwnMerchant(product, a) == Role(a) = "merchant" /\ product.merchant # a

\* part_005:356-385, 421-435: protect, authorize, validation of a PUT,
\* findById, ownership
ProductFind(s) ==
  /\ req[s].type \in {"updateProduct", "deleteProduct"}
  /\ req[s].pc = "findProduct"
  /\ IF ~Protect(req[s].user) THEN Respond(s, 401)
     ELSE IF ~Authorize(req[s].user, {"admin", "merchant"}) THEN Respond(s, 403)
     ELSE IF req[s].type = "updateProduct"
             /\ ~(ValidProductBody(req[s].bstock) /\ ValidPriceBody(req[s].bprice))
       THEN Respond(s, 400)
     ELSE IF ~catalog[req[s].arg].exists THEN Respond(s, 404)
     ELSE IF NotOwnMerchant(catalog[req[s].arg], req[s].user) THEN Respond(s, 403)
     ELSE req' = [req EXCEPT ![s].pc = "write"] /\ UNCHANGED last
  /\ UNCHANGED <<stock, cart, orders, hist, clientV, wishV, reviewV, siteV>>

\* part_005:387-404: findByIdAndUpdate with the whole body
UpdateProduct(s) ==
  /\ req[s].type = "updateProduct" /\ req[s].pc = "write"
  /\ LET p == req[s].arg
     IN /\ catalog' = IF ~catalog[p].exists THEN catalog
                      ELSE [catalog EXCEPT
                        ![p].merchant = IF req[s].body # "-" THEN req[s].body ELSE @,
                        ![p].price = IF req[s].bprice # {}
                                     THEN CHOOSE n \in req[s].bprice : TRUE ELSE @]
        /\ stock' = IF catalog[p].exists /\ req[s].bstock # {}
                    THEN [stock EXCEPT ![p] = CHOOSE n \in req[s].bstock : TRUE]
                    ELSE stock
        /\ rating' = IF ~catalog[p].exists THEN rating
                     ELSE [rating EXCEPT ![p] = WrittenDerived(req[s].brating, @)]
        /\ reviewCount' = IF ~catalog[p].exists THEN reviewCount
                          ELSE [reviewCount EXCEPT ![p] = WrittenDerived(req[s].bcount, @)]
  /\ Respond(s, 200)
  /\ UNCHANGED <<cart, orders, hist, clientV, wishV, reviews, nextId, role>>

\* part_005:437-443: findByIdAndDelete
DeleteProduct(s) ==
  /\ req[s].type = "deleteProduct" /\ req[s].pc = "write"
  /\ catalog' = [catalog EXCEPT ![req[s].arg].exists = FALSE]
  /\ Respond(s, 200)
  /\ UNCHANGED <<stock, cart, orders, hist, clientV, wishV, reviewV, role>>

\* ------------------------------------------------------------ /api/cart
\* The cart handlers are modelled one action per request: no claim is about
\* two cart requests of one user interleaving.
CartResp(op, u, code, line) ==
  [op |-> op, user |-> u, code |-> code, oid |-> 0, arg |-> "-", line |-> line,
   add |-> NoAdd, totals |-> NoTotals, data |-> {}, total |-> 0, shown |-> 0,
   pre |-> [stock |-> stock, cart |-> cart, orders |-> <<>>, reviews |-> {}]]

AddResp(u, code, line, p, q, v) ==
  [CartResp("add", u, code, line) EXCEPT
     !.add = [product |-> p, variant |-> v, quantity |-> q]]

\* a populated variant's priceModifier; 0 for a line without variant
ModifierOf(v) == IF v = NoVariant THEN 0 ELSE PriceModifier[v]

\* part_004:14, the cart populated with items.product and items.variant
CartLinePrice(item) == ProductPrice(item.product) + ModifierOf(item.variant)

\* part_004:10-19
RECURSIVE calculateCartTotals(_)
calculateCartTotals(items) ==
  IF items = <<>> THEN 0
  ELSE CartLinePrice(Head(items)) * Head(items).quantity + calculateCartTotals(Tail(items))

\* part_004:34-38
CartTotals(items) ==
  LET subtotal == calculateCartTotals(items)
      shipping == IF subtotal >= Cents(10000) THEN 0 ELSE Cents(999)
      tax == (subtotal * 8) \div 100
  IN [subtotal |-> subtotal, discount |-> 0, shipping |-> shipping, tax |-> tax,
      total |-> subtotal + shipping + tax]

ValidQuantityAny(q) == TRUE

\* part_004:61,136 isInt({ min: 1 })
ValidQuantity(q) == q >= 1

\* part_004:99-102: findIndex, 0 standing for -1
MatchesLine(item, p, v) ==
  item.product = p /\ (v = NoVariant \/ item.variant = v)

ExistingItemIndex(items, p, v) ==
  LET hits == {i \in DOMAIN items : MatchesLine(items[i], p, v)}
  IN IF hits = {} THEN 0 ELSE CHOOSE i \in hits : \A j \in hits : i <= j

\* part_004:104-114
AddedItems(items, p, q, v) ==
  LET idx == ExistingItemIndex(items, p, v)
  IN IF idx > 0
     THEN [items EXCEPT ![idx].quantity = @ + q]
     ELSE Append(items, [product |-> p, variant |-> v, quantity |-> q])

AddedLine(items, p, v) ==
  LET idx == ExistingItemIndex(items, p, v)
  IN IF idx > 0 THEN idx ELSE Len(items) + 1

\* part_004:59-130, POST /api/cart/items
AddItemRequest(u, p, q, v) ==
  /\ InFlight = {}
  /\ IF ~ValidQuantity(q) THEN last' = AddResp(u, 400, 0, p, q, v) /\ UNCHANGED cart
     ELSE IF p \notin Products THEN last' = AddResp(u, 404, 0, p, q, v) /\ UNCHANGED cart
     ELSE IF InsufficientStock(stock[p], q)
       THEN last' = AddResp(u, 400, 0, p, q, v) /\ UNCHANGED cart
     ELSE LET items == AddedItems(cart[u].items, p, q, v) IN
       /\ Len(items) <= MaxLines
       /\ \A i \in DOMAIN items : items[i].quantity <= MaxQty
       /\ cart' = [cart EXCEPT ![u] = [exists |-> TRUE, items |-> items]]
       /\ last' = AddResp(u, 200, AddedLine(cart[u].items, p, v), p, q, v)

AddItem(u, p, q, v) ==
  /\ AddItemRequest(u, p, q, v)
  /\ UNCHANGED <<stock, orders, req, hist, clientV, wishV, reviewV, siteV>>

\* the response to an update, with the quantity of its body
UpdateResp(u, code, line, q) ==
  [CartResp("update", u, code, line) EXCEPT !.add = [NoAdd EXCEPT !.quantity = q]]

\* part_004:135-190, PUT /api/cart/items/:itemId; the line is named by its
\* position in the cart at the time of the request
UpdateItemRequest(u, line, q) ==
  /\ InFlight = {}
  /\ IF ~ValidQuantity(q) THEN last' = UpdateResp(u, 400, 0, q) /\ UNCHANGED cart
     ELSE IF ~cart[u].exists THEN last' = UpdateResp(u, 404, 0, q) /\ UNCHANGED cart
     ELSE IF line \notin DOMAIN cart[u].items
       THEN last' = UpdateResp(u, 404, 0, q) /\ UNCHANGED cart
     ELSE IF InsufficientStock(stock[cart[u].items[line].product], q)
       THEN last' = UpdateResp(u, 400, 0, q) /\ UNCHANGED cart
     ELSE /\ cart' = [cart EXCEPT ![u].items[line].quantity = q]
          /\ last' = UpdateResp(u, 200, line, q)

UpdateItem(u, line, q) ==
  /\ UpdateItemRequest(u, line, q)
  /\ UNCHANGED <<stock, orders, req, hist, clientV, wishV, reviewV, siteV>>

\* part_004:252 items.pull(_id)
PulledItems(items, line) ==
  [i \in 1..(Len(items) - 1) |-> IF i < line THEN items[i] ELSE items[i + 1]]

\* part_004:195-293, DELETE /api/cart/items/:itemId
RemoveItemRequest(u, line) ==
  /\ InFlight = {}
  /\ IF ~cart[u].exists THEN last' = CartResp("remove", u, 404, 0) /\ UNCHANGED cart
     ELSE IF line \notin DOMAIN cart[u].items
       THEN last' = CartResp("remove", u, 404, 0) /\ UNCHANGED cart
     ELSE /\ cart' = [cart EXCEPT ![u].items = PulledItems(@, line)]
          /\ last' = CartResp("remove", u, 200, line)

RemoveItem(u, line) ==
  /\ RemoveItemRequest(u, line)
  /\ UNCHANGED <<stock, orders, req, hist, clientV, wishV, reviewV, siteV>>

\* part_004:298-318, DELETE /api/cart
ClearCartRequest(u) ==
  /\ InFlight = {}
  /\ IF ~cart[u].exists THEN last' = CartResp("clear", u, 404, 0) /\ UNCHANGED cart
     ELSE /\ cart' = [cart EXCEPT ![u].items = <<>>]
          /\ last' = CartResp("clear", u, 200, 0)

ClearCart(u) ==
  /\ ClearCartRequest(u)
  /\ UNCHANGED <<stock, orders, req, hist, clientV, wishV, reviewV, siteV>>

\* part_004:24-54, GET /api/cart: creates the cart when there is none
GetCart(u) ==
  /\ InFlight = {}
  /\ cart' = [cart EXCEPT ![u].exists = TRUE]
  /\ last' = [CartResp("get", u, 200, 0) EXCEPT !.totals = CartTotals(cart[u].items)]
  /\ UNCHANGED <<stock, orders, req, hist, clientV, wishV, reviewV, siteV>>

\* ------------------------------------------------- client cart provider
\* CartContext.tsx:116-119, AuthContext.tsx:232-235
SHIPPING_THRESHOLD == 1000000
SHIPPING_COST == 99900
TAX_RATE == 8

\* CartContext.tsx:30-32, AuthContext.tsx:167-169
generateCartItemId(productId, variantId) ==
  IF variantId # NoVariant THEN productId \o "-" \o variantId ELSE productId

\* findIndex / find by item id, 0 standing for -1
IndexOfId(items, itemId) ==
  LET hits == {i \in DOMAIN items : items[i].id = itemId}
  IN IF hits = {} THEN 0 ELSE CHOOSE i \in hits : \A j \in hits : i <= j

\* filter((item) => item.id !== itemId)
RECURSIVE WithoutId(_, _)
WithoutId(items, itemId) ==
  IF items = <<>> THEN <<>>
  ELSE IF Head(items).id = itemId THEN WithoutId(Tail(items), itemId)
  ELSE <<Head(items)>> \o WithoutId(Tail(items), itemId)

\* cartReducer ADD_ITEM, CartContext.tsx:40-63
ReduceAddItem(items, p, q, v) ==
  LET itemId == generateCartItemId(p, v)
      existingIndex == IndexOfId(items, itemId)
  IN IF existingIndex > 0
     THEN [items EXCEPT ![existingIndex].quantity = @ + q]
     ELSE Append(items, [id |-> itemId, product |-> p, variant |-> v, quantity |-> q])

\* cartReducer UPDATE_QUANTITY, CartContext.tsx:65-76
ReduceUpdateQuantity(items, itemId, q) ==
  IF q <= 0 THEN WithoutId(items, itemId)
  ELSE [i \in DOMAIN items |->
          IF items[i].id = itemId THEN [items[i] EXCEPT !.quantity = q] ELSE items[i]]

\* cartReducer REMOVE_ITEM, CartContext.tsx:78-79
ReduceRemoveItem(items, itemId) == WithoutId(items, itemId)

ClientResp(op, p, q, v) ==
  [NoResp EXCEPT !.op = op, !.add = [product |-> p, variant |-> v, quantity |-> q],
                 !.pre = [stock |-> <<>>, cart |-> client.items, orders |-> <<>>,
                         reviews |-> {}]]

\* the user of the authenticated session
SessionUser == "u1"

\* the transformation of the lines of GET /api/cart, AuthContext.tsx:251-263:
\* each line under the id of its cart subdocument
TransformedItems(items) ==
  [i \in DOMAIN items |->
     [id |-> "item" \o ToString(i), product |-> items[i].product,
      variant |-> items[i].variant, quantity |-> items[i].quantity]]

\* the cart line whose subdocument id is itemId, 0 when there is none
LineOfId(itemId) ==
  LET hits == {i \in 1..MaxLines : "item" \o ToString(i) = itemId}
  IN IF hits = {} THEN 0 ELSE CHOOSE i \in hits : TRUE

\* getItemQuantity, AuthContext.tsx:436-440: item?.quantity || 0
getItemQuantity(productId, variantId) ==
  LET index == IndexOfId(client.items, generateCartItemId(productId, variantId))
  IN IF index = 0 THEN 0 ELSE client.items[index].quantity

\* isInCart, AuthContext.tsx:442-445
isInCart(productId, variantId) ==
  \E i \in DOMAIN client.items :
    client.items[i].id = generateCartItemId(productId, variantId)

\* ------------------------------------------------------------ auth provider
\* AuthContext.jsx.  isAuth is state.isAuthenticated; auth.user, auth.token
\* and auth.isLoading are the rest of the reducer state; auth.auth_token and
\* auth.stored are the localStorage entries 'auth_token' and 'user', named
\* by the user they belong to; auth.pc is the call in flight and auth.arg
\* its email.
NoUser == "-"

\* AuthContext.jsx:9-14, before the mount effect ran
MountingAuth(token, user) ==
  [user |-> NoUser, token |-> NoUser, isLoading |-> TRUE,
   auth_token |-> token, stored |-> user, pc |-> "mount", arg |-> NoUser, done |-> "-"]

\* the provider after a login of the session user, or after a mount without one
SettledAuth(signedIn) ==
  LET u == IF signedIn THEN SessionUser ELSE NoUser
  IN [user |-> u, token |-> u, isLoading |-> FALSE,
      auth_token |-> u, stored |-> u, pc |-> "idle", arg |-> NoUser, done |-> "-"]

\* the call in flight returned
Settled(a, op) == [a EXCEPT !.pc = "idle", !.arg = NoUser, !.done = op]

\* authReducer AUTH_SUCCESS, AuthContext.jsx:21-27
AuthSuccess(a, user, token) ==
  /\ isAuth' = TRUE
  /\ UNCHANGED client
  /\ auth' = [a EXCEPT !.user = user, !.token = token, !.isLoading = FALSE]

\* authReducer AUTH_FAILURE and LOGOUT, AuthContext.jsx:28-31
AuthFailure(a) ==
  /\ isAuth' = FALSE
  /\ UNCHANGED client
  /\ auth' = [a EXCEPT !.user = NoUser, !.token = NoUser, !.isLoading = FALSE]

\* localStorage.removeItem('auth_token'); storage.remove('user')
Removed(a) == [a EXCEPT !.auth_token = NoUser, !.stored = NoUser]

\* window.location.href = '/login': the page loads anew and the providers
\* mount again
Redirected(a) ==
  /\ isAuth' = FALSE
  /\ auth' = MountingAuth(a.auth_token, a.stored)
  /\ client' = [items |-> <<>>, isLoading |-> TRUE, seen |-> FALSE]

\* the paths the response interceptor tells apart, api.js:66-72
PagePaths == {"/login", "/register", "/profile", "/"}

\* api.js:72: a 401 on a request that is no login or register, on a page
\* that is none of /login, /register and /profile
Intercepted(status, page) ==
  status = 401 /\ page \notin {"/login", "/register", "/profile"}

AuthFrame ==
  UNCHANGED <<stock, cart, orders, req, last, hist, storage, wishV, reviewV, siteV>>

\* the mount effect up to its await, AuthContext.jsx:48-55 and 78-82
AuthMount ==
  /\ auth.pc = "mount"
  /\ IF auth.auth_token # NoUser /\ auth.stored # NoUser
     THEN /\ auth' = [auth EXCEPT !.pc = "verify"]
          /\ UNCHANGED <<isAuth, client>>
     ELSE AuthFailure(Settled(auth, "mount"))
  /\ AuthFrame

\* the statuses of a response: 200, 401, and 0 for none (a network error)
Statuses == {200, 401, 0}

\* the mount effect from authAPI.getProfile() on, AuthContext.jsx:56-77,
\* with the interceptor of api.js:53-85
AuthVerified(status, page) ==
  /\ auth.pc = "verify"
  /\ IF status = 200
     THEN AuthSuccess([Settled(auth, "mount") EXCEPT !.stored = auth.auth_token],
                      auth.auth_token, auth.auth_token)
     ELSE IF Intercepted(status, page) THEN Redirected(Removed(auth))
     ELSE IF status = 401 THEN AuthFailure(Removed(Settled(auth, "mount")))
     ELSE AuthSuccess(Settled(auth, "mount"), auth.stored, auth.auth_token)
  /\ AuthFrame

\* login and register up to the await: AUTH_START, AuthContext.jsx:91-93
\* and 141-143
AuthStart(op, email) ==
  /\ auth.pc = "idle"
  /\ auth' = [auth EXCEPT !.isLoading = TRUE, !.pc = op, !.arg = email]
  /\ UNCHANGED <<isAuth, client>>
  /\ AuthFrame

\* login and register from the response on, AuthContext.jsx:94-137 and
\* 144-158; the interceptor leaves a 401 of /auth/login and /auth/register
AuthResponded(op, status) ==
  /\ auth.pc = op
  /\ IF status = 200
     THEN AuthSuccess([Settled(auth, op) EXCEPT !.auth_token = auth.arg, !.stored = auth.arg],
                      auth.arg, auth.arg)
     ELSE AuthFailure(Settled(auth, op))
  /\ AuthFrame

\* login, AuthContext.jsx:91-137
Login(email) == AuthStart("login", email)
LoginResponded(status) == AuthResponded("login", status)

\* register, AuthContext.jsx:140-158
Register(email) == AuthStart("register", email)
RegisterResponded(status) == AuthResponded("register", status)

\* logout up to the await, AuthContext.jsx:161-163
Logout ==
  /\ auth.pc = "idle"
  /\ auth' = [auth EXCEPT !.pc = "logout"]
  /\ UNCHANGED <<isAuth, client>>
  /\ AuthFrame

\* logout from the response on, AuthContext.jsx:164-171
LoggedOut(status, page) ==
  /\ auth.pc = "logout"
  /\ IF Intercepted(status, page) THEN Redirected(Removed(auth))
     ELSE AuthFailure(Removed(Settled(auth, "logout")))
  /\ AuthFrame

\* updateUser, AuthContext.jsx:174-177, with the edited profile of the
\* account that is signed in
UpdateProfile ==
  /\ auth.pc = "idle" /\ isAuth
  /\ auth' = [auth EXCEPT !.stored = auth.user, !.done = "updateUser"]
  /\ UNCHANGED <<isAuth, client>>
  /\ AuthFrame

\* a request of the session that the server answers with 401, api.js:72-79
Unauthorized(page) ==
  /\ auth.pc = "idle"
  /\ Intercepted(401, page)
  /\ Redirected(Removed(auth))
  /\ AuthFrame

\* mutant: the effect writes the storage whoever the session is
PersistedAlways == storage' = client'.items

\* mutant: the effect writes while the cart is loading
PersistGuardNone(isLoading) == TRUE

\* AuthContext.tsx:284,296 and CartContext.tsx:132: !state.isLoading
PersistGuard(isLoading) == ~isLoading

\* the persist effect, AuthContext.tsx:283-301 and CartContext.tsx:131-136:
\* it runs after a render that changed the items or isLoading
Persisted ==
  storage' = IF PersistGuard(client'.isLoading) /\ ~isAuth THEN client'.items ELSE storage

\* the persist effect of the render the provider mounted with, which runs
\* before the load effect's SET_ITEMS is rendered
MountPersist ==
  /\ client.isLoading
  /\ storage' = IF PersistGuard(client.isLoading) /\ ~isAuth THEN client.items ELSE storage
  /\ UNCHANGED <<stock, cart, orders, req, last, hist, client, isAuth, auth, wishV, reviewV, siteV>>

\* loadCart, AuthContext.tsx:242-281: the cart of GET /api/cart for an
\* authenticated session, the saved cart for a guest
LoadCart(u) ==
  /\ client.isLoading
  /\ InFlight = {}
  /\ IF isAuth
     THEN /\ cart' = [cart EXCEPT ![u].exists = TRUE]
          /\ client' = [items |-> TransformedItems(cart[u].items), isLoading |-> FALSE,
                        seen |-> isAuth]
          /\ last' = [CartResp("get", u, 200, 0) EXCEPT
                        !.totals = CartTotals(cart[u].items)]
     ELSE /\ client' = [items |-> storage, isLoading |-> FALSE, seen |-> isAuth]
          /\ last' = ClientResp("SET_ITEMS", "-", 0, NoVariant)
          /\ UNCHANGED cart
  /\ Persisted
  /\ UNCHANGED <<stock, orders, req, hist, isAuth, auth, wishV, reviewV, siteV>>

\* The effects of a render in which isAuthenticated changed (their
\* dependencies, AuthContext.tsx:281 and 301).  The load effect runs first:
\* with isAuthenticated it sets the items of GET /api/cart, of localStorage
\* when the request fails (ok is false); for a guest it reads localStorage.
\* The persist effect follows with the items of the render, then, after
\* SET_ITEMS, with the loaded ones.
RerunEffects(u, ok) ==
  /\ ~client.isLoading /\ client.seen # isAuth
  /\ InFlight = {}
  /\ LET saved == storage
         written == IF PersistGuard(client.isLoading) /\ ~isAuth THEN client.items ELSE storage
     IN IF isAuth /\ ok
        THEN /\ cart' = [cart EXCEPT ![u].exists = TRUE]
             /\ client' = [items |-> TransformedItems(cart[u].items), isLoading |-> FALSE,
                           seen |-> isAuth]
             /\ last' = [CartResp("get", u, 200, 0) EXCEPT
                           !.totals = CartTotals(cart[u].items)]
             /\ storage' = written
        ELSE /\ client' = [items |-> saved, isLoading |-> FALSE, seen |-> isAuth]
             /\ last' = ClientResp("SET_ITEMS", "-", 0, NoVariant)
             /\ storage' = IF isAuth THEN written ELSE saved
             /\ UNCHANGED cart
  /\ UNCHANGED <<stock, orders, req, hist, isAuth, auth, wishV, reviewV, siteV>>

\* the reload after a request the server accepted; the reducer's action when
\* the session is a guest's or the request was rejected
Dispatched(items) ==
  IF isAuth /\ last'.code = 200
  THEN client' = [client EXCEPT !.items = TransformedItems(cart'[SessionUser].items)]
  ELSE client' = [client EXCEPT !.items = items]

WithinBounds(items) ==
  /\ Len(items) <= MaxLines
  /\ \A i \in DOMAIN items : items[i].quantity <= MaxQty

\* addItem, AuthContext.tsx:304-332
ClientAddItem(p, q, v) ==
  /\ ~client.isLoading
  /\ IF isAuth THEN AddItemRequest(SessionUser, p, q, v)
     ELSE last' = ClientResp("ADD_ITEM", p, q, v) /\ UNCHANGED cart
  /\ Dispatched(ReduceAddItem(client.items, p, q, v))
  /\ WithinBounds(client'.items)
  /\ Persisted
  /\ UNCHANGED <<stock, orders, req, hist, isAuth, auth, wishV, reviewV, siteV>>

\* updateQuantity, AuthContext.tsx:334-360
ClientUpdateQuantity(itemId, q) ==
  /\ ~client.isLoading
  /\ IF isAuth THEN UpdateItemRequest(SessionUser, LineOfId(itemId), q)
     ELSE last' = ClientResp("UPDATE_QUANTITY", itemId, q, NoVariant) /\ UNCHANGED cart
  /\ Dispatched(ReduceUpdateQuantity(client.items, itemId, q))
  /\ Persisted
  /\ UNCHANGED <<stock, orders, req, hist, isAuth, auth, wishV, reviewV, siteV>>

\* removeItem, AuthContext.tsx:362-407
ClientRemoveItem(itemId) ==
  /\ ~client.isLoading
  /\ IF isAuth THEN RemoveItemRequest(SessionUser, LineOfId(itemId))
     ELSE last' = ClientResp("REMOVE_ITEM", itemId, 0, NoVariant) /\ UNCHANGED cart
  /\ Dispatched(ReduceRemoveItem(client.items, itemId))
  /\ Persisted
  /\ UNCHANGED <<stock, orders, req, hist, isAuth, auth, wishV, reviewV, siteV>>

\* clearCart, AuthContext.tsx:409-418
ClientClearCart ==
  /\ ~client.isLoading
  /\ IF isAuth THEN ClearCartRequest(SessionUser)
     ELSE last' = ClientResp("CLEAR_CART", "-", 0, NoVariant) /\ UNCHANGED cart
  /\ client' = [client EXCEPT !.items = <<>>]
  /\ Persisted
  /\ UNCHANGED <<stock, orders, req, hist, isAuth, auth, wishV, reviewV, siteV>>

\* the computed values of the provider, AuthContext.tsx:421-434
ClientLinePrice(item) == Price[item.product] + ModifierOf(item.variant)

RECURSIVE ClientSubtotal(_)
ClientSubtotal(items) ==
  IF items = <<>> THEN 0
  ELSE ClientSubtotal(SubSeq(items, 1, Len(items) - 1))
       + ClientLinePrice(items[Len(items)]) * items[Len(items)].quantity

ClientTotals(items) ==
  LET subtotal == ClientSubtotal(items)
      discount == 0
      shipping == IF subtotal >= SHIPPING_THRESHOLD THEN 0 ELSE SHIPPING_COST
      tax == ((subtotal - discount) * TAX_RATE) \div 100
  IN [subtotal |-> subtotal, discount |-> discount, shipping |-> shipping,
      tax |-> tax, total |-> subtotal - discount + shipping + tax]

\* ------------------------------------------------------------ checkout page
\* part_010:53 and 327-360: the shipping methods of the radio group
ShippingMethods == {"standard", "express"}

\* part_010:130-131: 14.99
EXPRESS_COST == 149900

\* part_010:130
finalShipping(shippingMethod) ==
  IF shippingMethod = "express" THEN EXPRESS_COST ELSE ClientTotals(client.items).shipping

\* part_010:131, the amount of the Pay button (part_010:540)
finalTotal(shippingMethod) ==
  ClientTotals(client.items).total
    + (IF shippingMethod = "express"
       THEN EXPRESS_COST - ClientTotals(client.items).shipping ELSE 0)

\* handlePlaceOrder up to ordersAPI.create, part_010:80-106, in the session
\* of a signed-in shopper; the page shows the form for a cart with items
\* (part_010:56).  The request keeps the method (sent as notes) and the
\* amount the button showed.
PlaceOrder(s, shippingMethod) ==
  /\ isAuth /\ ~client.isLoading
  /\ Len(client.items) > 0
  /\ req[s].type = "idle"
  /\ Len(orders) < MaxOrders
  /\ req' = [req EXCEPT ![s] =
       [Idle EXCEPT !.type = "create", !.user = SessionUser, !.pc = "readCart",
                    !.arg = shippingMethod, !.shown = finalTotal(shippingMethod),
                    !.pre = Snap(TRUE)]]
  /\ last' = NoResp
  /\ UNCHANGED <<stock, cart, orders, hist, clientV, wishV, reviewV, siteV>>

\* the response of a checkout's request that created the order
Placed == last.op = "create" /\ last.code = 201 /\ last.arg \in ShippingMethods

\* handlePlaceOrder after the response, part_010:108: clearCart()
OrderPlaced ==
  /\ Placed
  /\ ClientClearCart

\* ------------------------------------------------------------ /api/wishlist
\* users.js:184-282.  A request's arg is its productId ("-" when it has
\* none), its items the items of the document it read, its modified flag
\* whether the document was saved by another request since.
NoProduct == "-"

StartWishlist(s, u, type, p, track) ==
  /\ req[s].type = "idle"
  /\ req' = [req EXCEPT ![s] =
       [Idle EXCEPT !.type = type, !.user = u, !.arg = p, !.pc = "find",
                    !.pre = Snap(track)]]
  /\ last' = NoResp
  /\ Count(track)
  /\ UNCHANGED <<stock, cart, orders, stock0, cancels, clientV, wishV, reviewV, siteV>>

\* users.js:214-216: wishlist.items.some(item => item.product.toString() === productId)
InWishlist(items, p) == \E i \in DOMAIN items : items[i] = p

\* users.js:187-223, POST /api/wishlist up to wishlist.save()
WishlistAddFind(s) ==
  /\ req[s].type = "wishAdd" /\ req[s].pc = "find"
  /\ IF ~Protect(req[s].user) THEN Respond(s, 401)
     ELSE IF req[s].arg = NoProduct THEN Respond(s, 400)
     ELSE IF req[s].arg \notin Products \/ ~catalog[req[s].arg].exists THEN Respond(s, 404)
     ELSE IF InWishlist(wishlist[req[s].user], req[s].arg) THEN Respond(s, 400)
     ELSE /\ req' = [req EXCEPT ![s].items = wishlist[req[s].user],
                                ![s].modified = FALSE, ![s].pc = "save"]
          /\ UNCHANGED last
  /\ UNCHANGED <<stock, cart, orders, hist, clientV, wishV, reviewV, siteV>>

\* a save of the user's document: the requests that read it before hold
\* an earlier version (__v) of it
Saved(s, rq) ==
  [t \in Slots |->
     IF t = s THEN rq
     ELSE IF req[t].type \in {"wishAdd", "wishRemove"} /\ req[t].pc = "save"
             /\ req[t].user = req[s].user
     THEN [req[t] EXCEPT !.modified = TRUE]
     ELSE req[t]]

\* users.js:225-240: wishlist.items.push(...); wishlist.save() sends the
\* push as $push, which appends to the array the document has in the
\* database and does not depend on the version the request read
WishlistAddSave(s) ==
  /\ req[s].type = "wishAdd" /\ req[s].pc = "save"
  /\ wishlist' = [wishlist EXCEPT ![req[s].user] = Append(@, req[s].arg)]
  /\ last' = Resp(req[s], 200)
  /\ req' = Saved(s, Idle)
  /\ UNCHANGED <<stock, cart, orders, hist, clientV, wish, reviewV, siteV>>

\* users.js:260-262: filter(item => String(item.product) !== String(productId))
WithoutProduct(items, p) ==
  LET Other(q) == q # p IN SelectSeq(items, Other)

\* users.js:248-270, DELETE /api/wishlist/:productId up to wishlist.save()
WishlistRemoveFind(s) ==
  /\ req[s].type = "wishRemove" /\ req[s].pc = "find"
  /\ LET items == wishlist[req[s].user] IN
       IF ~Protect(req[s].user) THEN Respond(s, 401)
       ELSE IF Len(WithoutProduct(items, req[s].arg)) = Len(items) THEN Respond(s, 404)
       ELSE /\ req' = [req EXCEPT ![s].items = WithoutProduct(items, req[s].arg),
                                  ![s].modified = FALSE, ![s].pc = "save"]
            /\ UNCHANGED last
  /\ UNCHANGED <<stock, cart, orders, hist, clientV, wishV, reviewV, siteV>>

\* users.js:272-285: the assigned array is saved with $set under the
\* version the request read; a document saved since fails the save
\* (VersionError, answered 500)
WishlistRemoveSave(s) ==
  /\ req[s].type = "wishRemove" /\ req[s].pc = "save"
  /\ IF req[s].modified
     THEN Respond(s, 500) /\ UNCHANGED wishlist
     ELSE /\ wishlist' = [wishlist EXCEPT ![req[s].user] = req[s].items]
          /\ last' = Resp(req[s], 200)
          /\ req' = Saved(s, Idle)
  /\ UNCHANGED <<stock, cart, orders, hist, clientV, wish, reviewV, siteV>>

WishlistStep(s) ==
  \/ WishlistAddFind(s)
  \/ WishlistAddSave(s)
  \/ WishlistRemoveFind(s)
  \/ WishlistRemoveSave(s)

\* ------------------------------------------------ client wishlist provider
\* wishlistReducer ADD_ITEM, WishlistContext.tsx:34-46 and
\* CartContext.tsx:238-254
ReduceWishAdd(items, p) == IF InWishlist(items, p) THEN items ELSE Append(items, p)

\* wishlistReducer REMOVE_ITEM, WishlistContext.tsx:48-52 and
\* CartContext.tsx:256-265
ReduceWishRemove(items, p) == WithoutProduct(items, p)

WishFrame ==
  UNCHANGED <<stock, cart, orders, req, last, hist, clientV, wishlist, reviewV, siteV>>

\* addItem, WishlistContext.tsx:95-97
WishAddItem(p) == wish' = ReduceWishAdd(wish, p) /\ WishFrame

\* removeItem, WishlistContext.tsx:99-101
WishRemoveItem(p) == wish' = ReduceWishRemove(wish, p) /\ WishFrame

\* ------------------------------------------------------------ /api/reviews
\* A request's oid is the review id of its URL or of the document it created,
\* its arg the product of its body or of the document it found.

\* part_006:32,95 isInt({ min: 1, max: 5 })
ValidRating(r) == r >= 1 /\ r <= 5

ReviewsOf(docs, p) == {r \in docs : r.product = p}

\* part_002:44 reviews.reduce((sum, review) => sum + review.rating, 0)
RECURSIVE totalRating(_)
totalRating(found) ==
  IF found = {} THEN 0
  ELSE LET r == CHOOSE x \in found : TRUE IN r.rating + totalRating(found \ {r})

RoundedRatingDown(total, n) == (10 * total) \div n

\* part_002:45-49 Math.round(averageRating * 10), the rating in tenths
RoundedRating(total, n) == (20 * total + n) \div (2 * n)

DuplicateKeyNever(docs, p, u) == FALSE

\* part_002:29, the unique index on (product, user)
DuplicateKey(docs, p, u) == \E r \in docs : r.product = p /\ r.user = u

\* A request that starts while others are in flight overlaps them: neither
\* it nor they record what they found.
Overlapped(track) ==
  IF track THEN req ELSE [t \in Slots |-> [req[t] EXCEPT !.pre = NoSnap]]

\* part_006:30-45, POST /api/reviews up to the first await
StartCreateReview(s, u, p, r, track) ==
  /\ req[s].type = "idle"
  /\ nextId + Cardinality({t \in Slots : req[t].type = "createReview"}) < MaxReviews
  /\ LET rq == [Idle EXCEPT !.type = "createReview", !.user = u, !.arg = p,
                            !.rating = r, !.pc = "findProduct", !.pre = Snap(track)]
     IN IF ~ValidRating(r)
        THEN last' = Resp(rq, 400) /\ req' = Overlapped(track)
        ELSE last' = NoResp /\ req' = [Overlapped(track) EXCEPT ![s] = rq]
  /\ UNCHANGED <<stock, cart, orders, stock0, cancels, clientV, wishV, reviewV, siteV>>

\* part_006:47-54
CreateReviewFindProduct(s) ==
  /\ req[s].type = "createReview" /\ req[s].pc = "findProduct"
  /\ IF req[s].arg \notin Products
     THEN Respond(s, 404)
     ELSE req' = [req EXCEPT ![s].pc = "findExisting"] /\ UNCHANGED last
  /\ UNCHANGED <<stock, cart, orders, hist, clientV, wishV, reviewV, siteV>>

\* part_006:56-67
CreateReviewFindExisting(s) ==
  /\ req[s].type = "createReview" /\ req[s].pc = "findExisting"
  /\ IF \E r \in reviews : r.product = req[s].arg /\ r.user = req[s].user
     THEN Respond(s, 400)
     ELSE req' = [req EXCEPT ![s].pc = "create"] /\ UNCHANGED last
  /\ UNCHANGED <<stock, cart, orders, hist, clientV, wishV, reviewV, siteV>>

\* part_006:69-75 Review.create: the insert, rejected by the unique index
\* with a duplicate key error that the catch-all answers with 500
CreateReviewInsert(s) ==
  /\ req[s].type = "createReview" /\ req[s].pc = "create"
  /\ IF DuplicateKey(reviews, req[s].arg, req[s].user)
     THEN Respond(s, 500) /\ UNCHANGED <<reviews, nextId>>
     ELSE /\ reviews' = reviews \cup {[id |-> nextId + 1, product |-> req[s].arg,
                                       user |-> req[s].user, rating |-> req[s].rating]}
          /\ nextId' = nextId + 1
          /\ req' = [req EXCEPT ![s].oid = nextId + 1, ![s].pc = "hookFind"]
          /\ UNCHANGED last
  /\ UNCHANGED <<stock, cart, orders, hist, clientV, wishV, rating, reviewCount, siteV>>

\* part_002:32-34 updateProductRating: Review.find({ product })
HookFind(s) ==
  /\ req[s].pc = "hookFind"
  /\ req' = [req EXCEPT ![s].found = ReviewsOf(reviews, req[s].arg), ![s].pc = "hookUpdate"]
  /\ UNCHANGED <<stock, cart, orders, last, hist, clientV, wishV, reviewV, siteV>>

\* part_002:36-51 updateProductRating: Product.findByIdAndUpdate, and the
\* response of the request whose hook this is (part_006:80,129,162)
HookUpdate(s) ==
  /\ req[s].pc = "hookUpdate"
  /\ LET n == Cardinality(req[s].found) IN
       /\ rating' = [rating EXCEPT ![req[s].arg] =
            IF n = 0 THEN 0 ELSE RoundedRating(totalRating(req[s].found), n)]
       /\ reviewCount' = [reviewCount EXCEPT ![req[s].arg] = n]
  /\ Respond(s, IF req[s].type = "createReview" THEN 201 ELSE 200)
  /\ UNCHANGED <<stock, cart, orders, hist, clientV, wishV, reviews, nextId, siteV>>

\* part_006:93-108, PUT /api/reviews/:id up to the first await; a body
\* without rating has hasRating FALSE
StartUpdateReview(s, u, id, hasRating, r, track) ==
  /\ req[s].type = "idle"
  /\ LET rq == [Idle EXCEPT !.type = "updateReview", !.user = u, !.oid = id,
                            !.rating = r, !.modified = hasRating,
                            !.pc = "findReview", !.pre = Snap(track)]
     IN IF hasRating /\ ~ValidRating(r)
        THEN last' = Resp(rq, 400) /\ req' = Overlapped(track)
        ELSE last' = NoResp /\ req' = [Overlapped(track) EXCEPT ![s] = rq]
  /\ UNCHANGED <<stock, cart, orders, stock0, cancels, clientV, wishV, reviewV, siteV>>

\* part_006:110-127: findById, the owner check, and the assignment to the
\* loaded document, which marks rating modified when the value differs
UpdateReviewFind(s) ==
  /\ req[s].type = "updateReview" /\ req[s].pc = "findReview"
  /\ LET docs == {r \in reviews : r.id = req[s].oid} IN
       IF docs = {} THEN Respond(s, 404)
       ELSE LET review == CHOOSE r \in docs : TRUE IN
         IF review.user # req[s].user THEN Respond(s, 403)
         ELSE /\ req' = [req EXCEPT
                   ![s].arg = review.product,
                   ![s].modified = req[s].modified /\ req[s].rating # review.rating,
                   ![s].pc = "save"]
              /\ UNCHANGED last
  /\ UNCHANGED <<stock, cart, orders, hist, clientV, wishV, reviewV, siteV>>

\* part_006:129 review.save(): writes the modified rating; a document that
\* is gone fails the save with DocumentNotFoundError (500)
UpdateReviewSave(s) ==
  /\ req[s].type = "updateReview" /\ req[s].pc = "save"
  /\ IF \A r \in reviews : r.id # req[s].oid
     THEN Respond(s, 500) /\ UNCHANGED reviews
     ELSE /\ reviews' = {IF r.id = req[s].oid /\ req[s].modified
                          THEN [r EXCEPT !.rating = req[s].rating] ELSE r : r \in reviews}
          /\ req' = [req EXCEPT ![s].pc = "hookFind"]
          /\ UNCHANGED last
  /\ UNCHANGED <<stock, cart, orders, hist, clientV, wishV, rating, reviewCount, nextId, siteV>>

\* part_006:143, DELETE /api/reviews/:id up to the first await
StartDeleteReview(s, u, id, track) ==
  /\ req[s].type = "idle"
  /\ req' = [Overlapped(track) EXCEPT ![s] =
       [Idle EXCEPT !.type = "deleteReview", !.user = u, !.oid = id,
                    !.pc = "findReview", !.pre = Snap(track)]]
  /\ last' = NoResp
  /\ UNCHANGED <<stock, cart, orders, stock0, cancels, clientV, wishV, reviewV, siteV>>

\* part_006:145-159
DeleteReviewFind(s) ==
  /\ req[s].type = "deleteReview" /\ req[s].pc = "findReview"
  /\ LET docs == {r \in reviews : r.id = req[s].oid} IN
       IF docs = {} THEN Respond(s, 404)
       ELSE LET review == CHOOSE r \in docs : TRUE IN
         IF review.user # req[s].user THEN Respond(s, 403)
         ELSE /\ req' = [req EXCEPT ![s].arg = review.product, ![s].pc = "delete"]
              /\ UNCHANGED last
  /\ UNCHANGED <<stock, cart, orders, hist, clientV, wishV, reviewV, siteV>>

\* part_006:161 findByIdAndDelete: the hook runs for the document deleted
\* (part_002:61-66), not when it was gone already
DeleteReviewDelete(s) ==
  /\ req[s].type = "deleteReview" /\ req[s].pc = "delete"
  /\ IF \A r \in reviews : r.id # req[s].oid
     THEN Respond(s, 200) /\ UNCHANGED reviews
     ELSE /\ reviews' = {r \in reviews : r.id # req[s].oid}
          /\ req' = [req EXCEPT ![s].pc = "hookFind"]
          /\ UNCHANGED last
  /\ UNCHANGED <<stock, cart, orders, hist, clientV, wishV, rating, reviewCount, nextId, siteV>>

\* ------------------------------------------------------------ specification
NoCart == [exists |-> FALSE, items |-> <<>>]

VariantInputs(p) ==
  {NoVariant} \cup (IF p \in DOMAIN Variants THEN Variants[p] ELSE {})

Lines ==
  UNION {{[product |-> p, variant |-> v, quantity |-> q] :
            v \in VariantInputs(p), q \in 1..MaxQty} : p \in Products}

\* The carts add-item builds: a line was appended only when no earlier line
\* matched it (part_004:99-113).  A line's quantity may exceed the stock of
\* its product, which other orders and product edits lower.
AddBuilt(items) ==
  \A i, j \in DOMAIN items :
    i < j => ~MatchesLine(items[i], items[j].product, items[j].variant)

Carts ==
  UNION {{items \in [1..n -> Lines] : AddBuilt(items)} : n \in 0..MaxLines}

\* u1 shops; u2 and adm own no cart and no order
Shoppers == {"u1"}

\* the statuses cancel rejects; pending and processing of those it accepts;
\* one that is no status
StatusInputs == {"pending", "processing", "shipped", "delivered", "cancelled", "bogus"}
StatusCallers == {"adm", "u2"}

InitRequests ==
  /\ req = [s \in Slots |-> Idle]
  /\ last = NoResp
  /\ cancels = 0
  /\ started = 0

\* the users with the roles they registered with; every product in the
\* catalogue, with its merchant
InitSite ==
  /\ role = [a \in Actors \cup Merchants |-> InitialRole(a)]
  /\ catalog = [p \in Products |->
                  [exists |-> TRUE, merchant |-> Merchant[p], price |-> Price[p]]]

\* every user's Wishlist document is there and empty (GET /api/wishlist
\* creates it, users.js:171-173), and so is the provider's
InitWish ==
  /\ wishlist = [u \in Users |-> <<>>]
  /\ wish = <<>>

\* a guest session whose provider has loaded an empty cart
InitClient ==
  /\ client = [items |-> <<>>, isLoading |-> FALSE, seen |-> FALSE]
  /\ isAuth = FALSE
  /\ storage = <<>>
  /\ auth = SettledAuth(FALSE)

InitReviews ==
  /\ reviews = {}
  /\ rating = [p \in Products |-> 0]
  /\ reviewCount = [p \in Products |-> 0]
  /\ nextId = 0

\* a shop with stocked products and the shopper's cart filled
Init ==
  /\ stock \in [Products -> 0..MaxStock]
  /\ \E items \in Carts :
       cart = [u \in Users |->
                IF u \in Shoppers THEN [exists |-> TRUE, items |-> items] ELSE NoCart]
  /\ orders = <<>>
  /\ InitRequests
  /\ InitSite
  /\ InitWish
  /\ stock0 = stock
  /\ InitClient
  /\ InitReviews

\* the steps of the requests in flight
CreateStep(s) ==
  \/ CreateReadCart(s)
  \/ CreateFindProduct(s)
  \/ CreateSaveProduct(s)
  \/ CreateOrder(s)
  \/ CreateClearCart(s)

CancelStep(s) ==
  \/ CancelFindOrder(s)
  \/ CancelFindProduct(s)
  \/ CancelSaveProduct(s)
  \/ CancelSaveOrder(s)

StatusStep(s) ==
  \/ StatusFindOrder(s)
  \/ StatusSaveOrder(s)

Step(s) ==
  \/ CreateStep(s)
  \/ CancelStep(s)
  \/ StatusStep(s)

Start(s, callers, statuses, track) ==
  \/ \E u \in callers \cap Users : StartCreate(s, u, track)
  \/ \E u \in callers \cap Users, o \in 1..MaxOrders : StartCancel(s, u, o, track)
  \/ \E a \in callers \cap StatusCallers, o \in 1..MaxOrders, st \in statuses :
       StartStatus(s, a, o, st, track)

\* requests run one at a time
Next ==
  \/ InFlight = {} /\ Start(1, Actors, StatusInputs, TRUE)
  \/ Step(1)

Spec == Init /\ [][Next]_vars

\* up to MaxInflight requests interleave at their awaits; a new request takes
\* the lowest free slot
FreeSlot(s) == req[s].type = "idle" /\ \A t \in 1..(s - 1) : req[t].type # "idle"

\* the interleaved requests are the shopper's and the admin's, the admin
\* moving an order between a status cancel accepts and one it rejects
ConcCallers == Shoppers \cup Admins
ConcStatuses == {"pending", "shipped"}

NextConc ==
  \E s \in Slots :
    \/ FreeSlot(s) /\ Start(s, ConcCallers, ConcStatuses, FALSE)
    \/ Step(s)

\* the interleaved runs start from the carts whose lines carry no variant:
\* a variant plays no part in the stock
PlainCarts == {items \in Carts : \A i \in DOMAIN items : items[i].variant = NoVariant}

InitConc ==
  /\ stock \in [Products -> 0..MaxStock]
  /\ \E items \in PlainCarts :
       cart = [u \in Users |->
                IF u \in Shoppers THEN [exists |-> TRUE, items |-> items] ELSE NoCart]
  /\ orders = <<>>
  /\ InitRequests
  /\ InitSite
  /\ InitWish
  /\ stock0 = stock
  /\ InitClient
  /\ InitReviews

SpecConc == InitConc /\ [][NextConc]_vars

\* --------------------------------- specification of interleaved creations
\* The shopper's order creations alone (a double submit), interleaved at
\* their awaits.
NextOversell ==
  \E s \in Slots :
    \/ FreeSlot(s) /\ \E u \in Shoppers : StartCreate(s, u, FALSE)
    \/ CreateStep(s)

SpecOversell == InitConc /\ [][NextOversell]_vars

\* ------------------------------------------ specification of order status
\* The shopper orders a cart; the shopper, the other user, the admin and the
\* merchants cancel the order and set its status, one request at a time.
InitStatus ==
  /\ stock = [p \in Products |-> MaxStock]
  /\ \E items \in PlainCarts :
       cart = [u \in Users |->
                IF u \in Shoppers THEN [exists |-> TRUE, items |-> items] ELSE NoCart]
  /\ orders = <<>>
  /\ InitRequests
  /\ InitSite
  /\ InitWish
  /\ stock0 = stock
  /\ InitClient
  /\ InitReviews

StatusActors == Actors \cup Merchants
AllStatusInputs == OrderStatuses \cup {"bogus"}

NextStatus ==
  \/ /\ InFlight = {}
     /\ \/ \E u \in Shoppers : StartCreate(1, u, TRUE)
        \/ \E u \in Users, o \in 1..MaxOrders : StartCancel(1, u, o, TRUE)
        \/ \E a \in StatusActors, o \in 1..MaxOrders, st \in AllStatusInputs :
             StartStatus(1, a, o, st, TRUE)
  \/ Step(1)

SpecStatus == InitStatus /\ [][NextStatus]_vars

\* ------------------------------------------- specification of the roles
\* Every actor calls the role-gated routes; the admin changes roles and
\* deletes users in between, and the shopper places the orders the status
\* route works on.
UserTargets == {"u2", "m2"}
RoleBodies == {"-", "user", "admin"}
AdminStatuses == {"shipped", "bogus"}
UserRoutes == {"listUsers", "updateUser", "deleteUser", "stats"}

UserStep(s) ==
  \/ ListUsers(s)
  \/ UpdateUser(s)
  \/ DeleteUser(s)
  \/ AdminStats(s)

InitAdmin ==
  /\ stock = [p \in Products |-> MaxStock]
  /\ \E items \in PlainCarts :
       cart = [u \in Users |->
                IF u \in Shoppers THEN [exists |-> TRUE, items |-> items] ELSE NoCart]
  /\ orders = <<>>
  /\ InitRequests
  /\ InitSite
  /\ InitWish
  /\ stock0 = stock
  /\ InitClient
  /\ InitReviews

NextAdmin ==
  \/ /\ InFlight = {}
     /\ \/ \E u \in Shoppers : StartCreate(1, u, TRUE)
        \/ \E a \in StatusActors, o \in 1..MaxOrders, st \in AdminStatuses :
             StartStatus(1, a, o, st, TRUE)
        \/ \E a \in StatusActors, type \in UserRoutes, target \in UserTargets,
              body \in RoleBodies :
             /\ type # "updateUser" => body = "-"
             /\ type \in {"listUsers", "stats"} => target = "u2"
             /\ StartUserRequest(1, a, type, target, body, TRUE)
  \/ CreateStep(1)
  \/ StatusStep(1)
  \/ UserStep(1)

SpecAdmin == InitAdmin /\ [][NextAdmin]_vars

\* ------------------------------------------ specification of order reads
\* The shopper places orders; every actor lists the orders and reads them by
\* id; the admin deletes users in between.
ReadStep(s) ==
  \/ ListOrders(s)
  \/ GetOrder(s)

DeletedUsers == {"u1", "u2"}

NextReads ==
  \/ /\ InFlight = {}
     /\ \/ \E u \in Shoppers : StartCreate(1, u, TRUE)
        \/ \E a \in StatusActors : StartListOrders(1, a, TRUE)
        \/ \E a \in StatusActors, o \in 1..MaxOrders : StartGetOrder(1, a, o, TRUE)
        \/ \E a \in Admins, target \in DeletedUsers :
             StartUserRequest(1, a, "deleteUser", target, "-", TRUE)
  \/ CreateStep(1)
  \/ ReadStep(1)
  \/ DeleteUser(1)

SpecReads == InitStatus /\ [][NextReads]_vars

\* -------------------------------------------- specification of products
\* Every actor updates and deletes the products; an update's body may name
\* a merchant and a stock.
MerchantBodies == {"-", "m1", "m2"}
StockBodies == {{}, {0}, {-1}}
ProductRoutes == {"updateProduct", "deleteProduct"}

ProductStep(s) ==
  \/ ProductFind(s)
  \/ UpdateProduct(s)
  \/ DeleteProduct(s)

NextProducts ==
  \/ /\ InFlight = {}
     /\ \E a \in StatusActors, type \in ProductRoutes, p \in Products,
           body \in MerchantBodies, bstock \in StockBodies :
          /\ type = "deleteProduct" => (body = "-" /\ bstock = {})
          /\ StartProductRequest(1, a, type, p, body, bstock, TRUE)
  \/ ProductStep(1)

\* no cart plays a part
InitProducts == InitStatus /\ \A u \in Shoppers : cart[u].items = <<>>

SpecProducts == InitProducts /\ [][NextProducts]_vars

\* --------------------------------------------- specification of pages
\* The shopper orders, fills the cart again and orders again; the merchants
\* request the pages of the order list.
PageLimits == {1, 2}
Pages == 1..(MaxOrders + 1)

NextPages ==
  \/ /\ InFlight = {}
     /\ \/ \E u \in Shoppers : StartCreate(1, u, FALSE)
        \/ \E u \in Shoppers, p \in Products : AddItem(u, p, 1, NoVariant)
        \/ \E m \in Merchants, page \in Pages, limit \in PageLimits :
             StartListPage(1, m, page, limit, TRUE)
  \/ CreateStep(1)
  \/ ListOrders(1)

SpecPages == InitStatus /\ [][NextPages]_vars

\* ------------------------------------------ specification of the session
\* The provider mounts on what an earlier session left in localStorage, then
\* the visitor logs in, registers, logs out and edits the profile, one call
\* at a time; the server answers each call with any status.
Accounts == Actors \cup Merchants
StoredUsers == Accounts \cup {NoUser}

InitAuth ==
  /\ stock = [p \in Products |-> MaxStock]
  /\ cart = [u \in Users |-> NoCart]
  /\ orders = <<>>
  /\ InitRequests
  /\ InitSite
  /\ InitWish
  /\ stock0 = stock
  /\ client = [items |-> <<>>, isLoading |-> TRUE, seen |-> FALSE]
  /\ storage = <<>>
  /\ InitReviews
  /\ isAuth = FALSE
  /\ \E user \in StoredUsers : auth = MountingAuth(user, user)

NextAuth ==
  \/ AuthMount
  \/ \E status \in Statuses, page \in PagePaths : AuthVerified(status, page)
  \/ \E email \in Accounts : Login(email)
  \/ \E status \in Statuses : LoginResponded(status)
  \/ \E email \in Accounts : Register(email)
  \/ \E status \in Statuses : RegisterResponded(status)
  \/ Logout
  \/ \E status \in Statuses, page \in PagePaths : LoggedOut(status, page)
  \/ UpdateProfile
  \/ \E page \in PagePaths : Unauthorized(page)

SpecAuth == InitAuth /\ [][NextAuth]_vars

\* ------------------------------------------ specification of snapshots
\* The shopper orders, fills the cart again and cancels; the admin sets the
\* status of the orders and the price of the products.
NewPrices == {Cents(2000)}
SnapshotStatuses == {"pending", "shipped"}
RefillProducts == {"p1"}

PriceStep(s) ==
  \/ ProductFind(s)
  \/ UpdateProduct(s)

NextSnapshot ==
  \/ /\ InFlight = {}
     /\ \/ \E u \in Shoppers : StartCreate(1, u, FALSE)
        \/ \E u \in Shoppers, o \in 1..MaxOrders : StartCancel(1, u, o, FALSE)
        \/ \E a \in Admins, o \in 1..MaxOrders, st \in SnapshotStatuses :
             StartStatus(1, a, o, st, FALSE)
        \/ \E a \in Admins, p \in Products, price \in NewPrices :
             StartPriceUpdate(1, a, p, price, FALSE)
        \/ \E u \in Shoppers, p \in RefillProducts : AddItem(u, p, 1, NoVariant)
  \/ CreateStep(1)
  \/ CancelStep(1)
  \/ StatusStep(1)
  \/ PriceStep(1)

SpecSnapshot == InitStatus /\ [][NextSnapshot]_vars

\* ------------------------------------------------- specification of carts
\* A guest's provider works on the reducer's items.  An authenticated user
\* sends cart requests, then the provider loads the cart and works on it.
\* what an earlier guest session left under 'cart': nothing, or one line
SavedCarts == {<<>>, ReduceAddItem(<<>>, "p1", 1, NoVariant)}

\* the stock of p1 is any, p2 is in full stock
InitCart ==
  /\ \E n \in 0..MaxStock : stock = [p \in Products |-> IF p = "p1" THEN n ELSE MaxStock]
  /\ cart = [u \in Users |-> NoCart]
  /\ orders = <<>>
  /\ InitRequests
  /\ InitSite
  /\ InitWish
  /\ stock0 = stock
  /\ isAuth \in BOOLEAN
  /\ auth = SettledAuth(isAuth)
  /\ client = [items |-> <<>>, isLoading |-> TRUE, seen |-> isAuth]
  /\ storage \in SavedCarts
  /\ InitReviews

ItemIds ==
  UNION {{generateCartItemId(p, v) : v \in VariantInputs(p)} : p \in Products}
    \cup {"item" \o ToString(i) : i \in 1..MaxLines}

\* the cart requests for the products ps
CartRequestFor(ps) ==
  /\ isAuth /\ client.isLoading
  /\ \E u \in Shoppers :
       \/ \E p \in ps, q \in 0..MaxQty :
            \E v \in VariantInputs(p) : AddItem(u, p, q, v)
       \/ \E line \in 1..MaxLines, q \in 0..MaxQty : UpdateItem(u, line, q)
       \/ \E line \in 1..MaxLines : RemoveItem(u, line)
       \/ ClearCart(u)
       \/ GetCart(u)

CartRequest == CartRequestFor(Products \cup {"px"})

\* the provider's operations, adding the products ps
ClientActionFor(ps) ==
  \/ \E p \in ps, q \in 1..MaxQty : \E v \in VariantInputs(p) : ClientAddItem(p, q, v)
  \/ \E itemId \in ItemIds, q \in 0..MaxQty : ClientUpdateQuantity(itemId, q)
  \/ \E itemId \in ItemIds : ClientRemoveItem(itemId)
  \/ ClientClearCart

ClientAction == ClientActionFor(Products)

NextCart ==
  \/ CartRequest
  \/ LoadCart(SessionUser)
  \/ ClientAction

SpecCart == InitCart /\ [][NextCart]_vars

\* a session of the provider alone: it loads the cart and works on it, every
\* product in stock
InitSession == InitCart /\ stock = [p \in Products |-> MaxStock]

NextSession ==
  \/ LoadCart(SessionUser)
  \/ ClientAction

SpecSession == InitSession /\ [][NextSession]_vars

\* the quantities of one product's lines: cart requests and the provider's
\* operations on p1 and its variant, any quantity from 0 on
QuantityProducts == {"p1"}

NextQuantity ==
  \/ CartRequestFor(QuantityProducts)
  \/ LoadCart(SessionUser)
  \/ ClientActionFor(QuantityProducts)

SpecQuantity == InitSession /\ [][NextQuantity]_vars

\* ------------------------------------------------ specification of totals
\* An authenticated shopper with a filled cart reads it, loads it into the
\* provider and orders it; a guest fills the provider's cart.
InitTotals ==
  /\ stock = [p \in Products |-> MaxStock]
  /\ isAuth \in BOOLEAN
  /\ \E items \in Carts :
       cart = [u \in Users |->
                IF isAuth /\ u \in Shoppers
                THEN [exists |-> TRUE, items |-> items] ELSE NoCart]
  /\ client = [items |-> <<>>, isLoading |-> isAuth, seen |-> isAuth]
  /\ auth = SettledAuth(isAuth)
  /\ storage = <<>>
  /\ orders = <<>>
  /\ InitRequests
  /\ InitSite
  /\ InitWish
  /\ stock0 = stock
  /\ InitReviews

NextTotals ==
  \/ isAuth /\ \E u \in Shoppers : GetCart(u)
  \/ LoadCart(SessionUser)
  \/ \E p \in Products, q \in 1..MaxQty : \E v \in VariantInputs(p) : ClientAddItem(p, q, v)
  \/ isAuth /\ InFlight = {} /\ \E u \in Shoppers : StartCreate(1, u, TRUE)
  \/ CreateReadCart(1)
  \/ CreateFindProduct(1)
  \/ CreateSaveProduct(1)
  \/ CreateOrder(1)
  \/ CreateClearCart(1)

SpecTotals == InitTotals /\ [][NextTotals]_vars

\* ----------------------------------------------- specification of startup
\* The page loads on what an earlier session left in localStorage: a guest's
\* cart, and a session or none.  The auth provider verifies the session while
\* the cart provider runs the effects of its mount; then the visitor logs in
\* and out, and the cart provider's effects run again.
InitStartup ==
  /\ stock = [p \in Products |-> MaxStock]
  /\ \E items \in PlainCarts :
       cart = [u \in Users |->
                IF u \in Shoppers THEN [exists |-> TRUE, items |-> items] ELSE NoCart]
  /\ orders = <<>>
  /\ InitRequests
  /\ InitSite
  /\ InitWish
  /\ stock0 = stock
  /\ InitReviews
  /\ isAuth = FALSE
  /\ client = [items |-> <<>>, isLoading |-> TRUE, seen |-> FALSE]
  /\ storage \in SavedCarts
  /\ \E user \in {SessionUser, NoUser} : auth = MountingAuth(user, user)

NextStartup ==
  \/ AuthMount
  \/ \E status \in Statuses, page \in PagePaths : AuthVerified(status, page)
  \/ Login(SessionUser)
  \/ \E status \in Statuses : LoginResponded(status)
  \/ Logout
  \/ \E status \in Statuses, page \in PagePaths : LoggedOut(status, page)
  \/ MountPersist
  \/ LoadCart(SessionUser)
  \/ \E ok \in BOOLEAN : RerunEffects(SessionUser, ok)
  \/ \E p \in Products : ClientAddItem(p, 1, NoVariant)

SpecStartup == InitStartup /\ [][NextStartup]_vars

\* ---------------------------------------------- specification of wishlists
\* The shopper's requests add products to the wishlist and remove them: one
\* at a time, and up to MaxRequests interleaved at their awaits; the
\* provider's reducer adds and removes as well.
WishlistInputs == Products \cup {"px", NoProduct}
WishlistRoutes == {"wishAdd", "wishRemove"}

\* no request that records its response is in flight
NoneTracked == \A s \in Slots : req[s].pre = NoSnap

NextWishlist ==
  \/ /\ InFlight = {}
     /\ \E u \in Shoppers, type \in WishlistRoutes, p \in WishlistInputs :
          StartWishlist(1, u, type, p, TRUE)
  \/ /\ NoneTracked
     /\ \E s \in Slots, u \in Shoppers, type \in WishlistRoutes, p \in Products :
          StartWishlist(s, u, type, p, FALSE)
  \/ \E s \in Slots : WishlistStep(s)
  \/ \E p \in Products : WishAddItem(p)
  \/ \E p \in Products : WishRemoveItem(p)

SpecWishlist == InitStatus /\ [][NextWishlist]_vars

\* ---------------------------------------------- specification of checkout
\* A signed-in shopper with a filled cart loads it into the provider, adds
\* to it and places the order from the checkout page with either method.
InitCheckout == InitTotals /\ isAuth

NextCheckout ==
  \/ LoadCart(SessionUser)
  \/ \E p \in Products, q \in 1..MaxQty : \E v \in VariantInputs(p) : ClientAddItem(p, q, v)
  \/ InFlight = {} /\ \E method \in ShippingMethods : PlaceOrder(1, method)
  \/ CreateStep(1)
  \/ OrderPlaced

SpecCheckout == InitCheckout /\ [][NextCheckout]_vars

\* ---------------------------------------------- specification of reviews
RatingInputs == {0, 1, 2, 6}

\* every actor reviews p1; u1 also reviews p2 and a product that is not there
ReviewInputs ==
  {<<u, "p1">> : u \in Actors} \cup {<<"u1", "p2">>, <<"u1", "px">>}

ReviewStep(s) ==
  \/ CreateReviewFindProduct(s)
  \/ CreateReviewFindExisting(s)
  \/ CreateReviewInsert(s)
  \/ UpdateReviewFind(s)
  \/ UpdateReviewSave(s)
  \/ DeleteReviewFind(s)
  \/ DeleteReviewDelete(s)
  \/ HookFind(s)
  \/ HookUpdate(s)

StartReview(s, inputs, callers, ratings, track) ==
  \/ \E in \in inputs, r \in ratings : StartCreateReview(s, in[1], in[2], r, track)
  \/ \E u \in callers, id \in 1..MaxReviews, r \in ratings :
       StartUpdateReview(s, u, id, TRUE, r, track)
  \/ \E u \in callers, id \in 1..MaxReviews : StartUpdateReview(s, u, id, FALSE, 0, track)
  \/ \E u \in callers, id \in 1..MaxReviews : StartDeleteReview(s, u, id, track)

InitShop ==
  /\ stock = [p \in Products |-> MaxStock]
  /\ cart = [u \in Users |-> NoCart]
  /\ orders = <<>>
  /\ InitRequests
  /\ InitSite
  /\ InitWish
  /\ stock0 = stock
  /\ InitClient

InitReview == InitShop /\ InitReviews

\* review requests run one at a time
NextReview ==
  \/ /\ InFlight = {}
     /\ StartReview(1, ReviewInputs, Users, RatingInputs, TRUE)
     /\ UNCHANGED started
  \/ ReviewStep(1)

SpecReview == InitReview /\ [][NextReview]_vars

\* up to MaxInflight of MaxRequests review requests interleave at their
\* awaits, on a product that has no review or one
ConcReviewInputs == {<<u, "p1">> : u \in Users}
ConcRatings == {1, 2}

InitReviewConc ==
  /\ InitShop
  /\ \/ InitReviews
     \/ /\ reviews = {[id |-> 1, product |-> "p1", user |-> "u1", rating |-> 1]}
        /\ rating = [p \in Products |-> IF p = "p1" THEN 10 ELSE 0]
        /\ reviewCount = [p \in Products |-> IF p = "p1" THEN 1 ELSE 0]
        /\ nextId = 1

NextReviewConc ==
  \E s \in Slots :
    \/ /\ FreeSlot(s)
       /\ StartReview(s, ConcReviewInputs, Shoppers, ConcRatings, InFlight = {})
       /\ started < MaxRequests /\ started' = started + 1
    \/ ReviewStep(s)

SpecReviewConc == InitReviewConc /\ [][NextReviewConc]_vars

\* interleaved creations and deletions of the reviews of p1, by both users
RaceStep(s) ==
  \/ CreateReviewFindProduct(s)
  \/ CreateReviewFindExisting(s)
  \/ CreateReviewInsert(s)
  \/ DeleteReviewFind(s)
  \/ DeleteReviewDelete(s)
  \/ HookFind(s)
  \/ HookUpdate(s)

NextReviewRace ==
  \E s \in Slots :
    \/ /\ FreeSlot(s)
       /\ \/ \E in \in ConcReviewInputs, r \in ConcRatings :
               StartCreateReview(s, in[1], in[2], r, FALSE)
          \/ \E u \in Users, id \in 1..MaxReviews : StartDeleteReview(s, u, id, FALSE)
       /\ started < MaxRequests /\ started' = started + 1
    \/ RaceStep(s)

SpecReviewRace == InitReviewConc /\ [][NextReviewRace]_vars

\* ---------------------------------- specification of the derived fields
\* Reviews are created and deleted, products are created and updated with a
\* body that names a rating and a reviewCount, orders are placed and
\* cancelled; one request at a time.  p2 may not be in the catalogue yet.
RatingBodies == {{}, {50}}
CountBodies == {{}, {7}}
ProductWriters == Admins \cup {"m1"}

InitRatings ==
  /\ stock = [p \in Products |-> MaxStock]
  /\ cart = [u \in Users |->
              IF u \in Shoppers
              THEN [exists |-> TRUE, items |-> AddedItems(<<>>, "p1", 1, NoVariant)]
              ELSE NoCart]
  /\ orders = <<>>
  /\ InitRequests
  /\ role = [a \in Actors \cup Merchants |-> InitialRole(a)]
  /\ \E there \in BOOLEAN :
       catalog = [p \in Products |->
                   [exists |-> (p = "p1" \/ there), merchant |-> Merchant[p],
                    price |-> Price[p]]]
  /\ InitWish
  /\ stock0 = stock
  /\ InitClient
  /\ InitReviews

NextRatings ==
  \/ /\ InFlight = {}
     /\ \/ \E u \in Shoppers : StartCreate(1, u, TRUE)
        \/ \E u \in Shoppers, o \in 1..MaxOrders : StartCancel(1, u, o, TRUE)
        \/ /\ \E in \in ConcReviewInputs, r \in ConcRatings :
                StartCreateReview(1, in[1], in[2], r, TRUE)
           /\ UNCHANGED started
        \/ /\ \E u \in Users, id \in 1..MaxReviews : StartDeleteReview(1, u, id, TRUE)
           /\ UNCHANGED started
        \/ \E a \in ProductWriters, p \in Products :
             StartRatedUpdate(1, a, p, 50, 7, TRUE)
        \/ \E a \in ProductWriters, p \in Products, br \in RatingBodies, bc \in CountBodies :
             StartCreateProduct(1, a, p, br, bc, TRUE)
  \/ CreateStep(1)
  \/ CancelStep(1)
  \/ RaceStep(1)
  \/ PriceStep(1)
  \/ CreateProduct(1)

SpecRatings == InitRatings /\ [][NextRatings]_vars

\* ------------------------------------------------------------------ claims
\* `last` describes a completed create request until the next request starts.
PreItems == last.pre.cart[last.user].items

CreateDone == last.op = "create"

ExceedsStock(items, stk) ==
  \E i \in DOMAIN items : items[i].quantity > stk[items[i].product]

\* the lines of an order are the lines of a cart: same product and quantity
SameLines(oitems, items) ==
  /\ Len(oitems) = Len(items)
  /\ \A i \in DOMAIN items :
       /\ oitems[i].product = items[i].product
       /\ oitems[i].quantity = items[i].quantity

\* C1: an order creation from a cart with a line whose quantity exceeds the
\* stock of its product fails, persists no order, leaves the cart as it was and
\* leaves the stock of every product as it was, the products of earlier lines
\* included.
C1_FailedCreateChangesNothing ==
  (CreateDone /\ last.pre.cart[last.user].exists /\ ExceedsStock(PreItems, last.pre.stock))
    => /\ last.code = 400
       /\ orders = last.pre.orders
       /\ cart = last.pre.cart
       /\ stock = last.pre.stock

CancelDone == last.op = "cancel" /\ last.oid \in DOMAIN last.pre.orders

\* C2: a successful cancel of a pending order adds to the stock of each
\* product the quantity the order holds of it and sets the status to
\* cancelled; one creation followed by one cancellation leaves the stock of
\* every product at its value before the order.
C2_CancelRestoresStock ==
  /\ (CancelDone /\ last.code = 200 /\ last.pre.orders[last.oid].status = "pending")
       => /\ \A p \in Products :
               stock[p] = last.pre.stock[p] + QuantityOf(last.pre.orders[last.oid].items, p)
          /\ orders[last.oid].status = "cancelled"
  /\ (CancelDone /\ last.code = 200 /\ Len(orders) = 1 /\ cancels = 1)
       => stock = stock0

C2_Witness ==
  /\ CancelDone /\ last.code = 200 /\ last.pre.orders[last.oid].status = "pending"
  /\ Len(orders) = 1 /\ cancels = 1
  /\ \E p \in Products : stock[p] > last.pre.stock[p]

\* C3: a cancel by the owner of an order that is shipped, delivered or
\* cancelled is answered 400, a cancel by anyone else 403; either way the
\* order's status and the stock of every product stay as they were.
C3_RejectedCancelChangesNothing ==
  CancelDone =>
    LET order == last.pre.orders[last.oid] IN
      /\ (order.user = last.user /\ order.status \in {"shipped", "delivered", "cancelled"})
           => last.code = 400 /\ orders = last.pre.orders /\ stock = last.pre.stock
      /\ order.user # last.user
           => last.code = 403 /\ orders = last.pre.orders /\ stock = last.pre.stock

C3_Witness ==
  /\ CancelDone /\ last.code = 400
  /\ last.pre.orders[last.oid].status = "shipped"
  /\ \E i \in DOMAIN orders[last.oid].items : orders[last.oid].items[i].quantity > 0

C3_WitnessNotOwner ==
  /\ CancelDone /\ last.code = 403
  /\ last.pre.orders[last.oid].status = "pending"
  /\ cancels = 1

\* C4: an order creation with no cart or an empty cart is answered 400,
\* persists no order and changes no stock; a creation that succeeds had a
\* non-empty cart, persists exactly one order whose lines are the cart's,
\* empties the caller's cart and lowers the stock of each product by the
\* quantity ordered.
C4_CreateFromNonEmptyCart ==
  CreateDone =>
    /\ (~last.pre.cart[last.user].exists \/ PreItems = <<>>)
         => last.code = 400 /\ orders = last.pre.orders /\ stock = last.pre.stock
    /\ last.code = 201
         => /\ PreItems # <<>>
            /\ Len(orders) = Len(last.pre.orders) + 1
            /\ SubSeq(orders, 1, Len(last.pre.orders)) = last.pre.orders
            /\ orders[Len(orders)].user = last.user
            /\ SameLines(orders[Len(orders)].items, PreItems)
            /\ cart[last.user].items = <<>>
            /\ \A u \in Users \ {last.user} : cart[u] = last.pre.cart[u]
            /\ \A p \in Products :
                 stock[p] = last.pre.stock[p] - QuantityOf(PreItems, p)

C4_Witness ==
  /\ CreateDone /\ last.code = 201
  /\ Len(PreItems) = 2
  /\ \A p \in Products : stock[p] < last.pre.stock[p]

\* the sum over the lines of (price + variant modifier) x quantity
RECURSIVE LineSum(_)
LineSum(items) ==
  IF items = <<>> THEN 0
  ELSE (Price[Head(items).product] + ModifierOf(Head(items).variant)) * Head(items).quantity
         + LineSum(Tail(items))

\* t holds the totals of the lines: amounts in hundredths of a cent
TotalsOf(t, items) ==
  /\ t.subtotal = LineSum(items)
  /\ t.shipping = IF t.subtotal >= Cents(10000) THEN 0 ELSE Cents(999)
  /\ 100 * t.tax = 8 * (t.subtotal - t.discount)
  /\ t.total = t.subtotal - t.discount + t.shipping + t.tax

\* C6: the totals of the cart read endpoint, of the client cart provider and
\* of order creation are: subtotal the sum of (price + variant modifier) x
\* quantity over the lines, shipping 0 from a subtotal of 100 on and 9.99
\* below, tax 0.08 x (subtotal - discount), total subtotal - discount +
\* shipping + tax.
C6_TotalsAgree ==
  /\ (last.op = "get" /\ last.code = 200)
       => TotalsOf(last.totals, last.pre.cart[last.user].items)
  /\ TotalsOf(ClientTotals(client.items), client.items)
  /\ \A o \in DOMAIN orders : TotalsOf(orders[o], orders[o].items)

\* no two lines of items carry the same product and variant
NoDuplicatePair(items) ==
  \A i, j \in DOMAIN items :
    (items[i].product = items[j].product /\ items[i].variant = items[j].variant) => i = j

LinesOf(items, p, v) ==
  {i \in DOMAIN items : items[i].product = p /\ items[i].variant = v}

\* items is pre with the quantity of the line of (p, v) raised by q
Merged(pre, items, p, v, q) ==
  /\ Len(items) = Len(pre)
  /\ \A i \in DOMAIN pre :
       /\ items[i].product = pre[i].product
       /\ items[i].variant = pre[i].variant
       /\ items[i].quantity =
            IF i \in LinesOf(pre, p, v) THEN pre[i].quantity + q ELSE pre[i].quantity

\* C7: a cart built by add-item operations, on the server and in the client
\* reducer, never has two lines with the same product and variant; an add of
\* a product and variant that has a line raises that line's quantity by the
\* amount added and leaves the number of lines as it was.
C7_AddMerges ==
  /\ \A u \in Users : NoDuplicatePair(cart[u].items)
  /\ NoDuplicatePair(client.items)
  /\ (last.op = "add" /\ last.code = 200
        /\ LinesOf(last.pre.cart[last.user].items, last.add.product, last.add.variant) # {})
       => Merged(last.pre.cart[last.user].items, cart[last.user].items,
                 last.add.product, last.add.variant, last.add.quantity)
  /\ (last.op = "ADD_ITEM"
        /\ LinesOf(last.pre.cart, last.add.product, last.add.variant) # {})
       => Merged(last.pre.cart, client.items,
                 last.add.product, last.add.variant, last.add.quantity)

\* C8: after a successful add-item or update-quantity request on the server
\* cart the quantity of the line it touched is at most the stock of the
\* line's product, also when the add merged into a line the cart had.
C8_LineWithinStock ==
  (last.op \in {"add", "update"} /\ last.code = 200)
    => cart[last.user].items[last.line].quantity
         <= stock[cart[last.user].items[last.line].product]

\* C9: there is at most one review per product and user, whatever the
\* interleaving of the review requests; a create request that overlapped no
\* other request and found a review of its user for its product is answered
\* 400 and leaves the reviews as they were.
C9_OneReviewPerPair ==
  /\ \A r1, r2 \in reviews :
       (r1.product = r2.product /\ r1.user = r2.user) => r1 = r2
  /\ (last.op = "createReview"
        /\ \E r \in last.pre.reviews : r.product = last.arg /\ r.user = last.user)
       => (last.code = 400 /\ reviews = last.pre.reviews)

\* two creates of one pair have both found no review; one has inserted and
\* the other is about to
C9_Witness ==
  \E s, t \in Slots :
    /\ req[s].type = "createReview" /\ req[s].pc = "create"
    /\ req[t].type = "createReview" /\ req[t].pc \in {"hookFind", "hookUpdate"}
    /\ req[s].arg = req[t].arg /\ req[s].user = req[t].user
    /\ \E r \in reviews : r.id = req[t].oid

C9_WitnessRejected ==
  /\ last.op = "createReview" /\ last.code = 400
  /\ \E r \in last.pre.reviews : r.product = last.arg /\ r.user = last.user

\* C10: when review requests run one at a time and none is in flight, the
\* reviewCount of every product is the number of its reviews and its rating
\* is their mean rounded to one decimal (within 0.05 of the mean), 0 when
\* it has no review; so after the delete of its only review both are 0.
C10_RatingIsRoundedMean ==
  InFlight = {} =>
    /\ \A p \in Products :
         LET docs == ReviewsOf(reviews, p)
             n == Cardinality(docs)
             d == 10 * totalRating(docs) - n * rating[p]
         IN /\ reviewCount[p] = n
            /\ n = 0 => rating[p] = 0
            /\ n > 0 => (2 * d <= n /\ -2 * d <= n)
    /\ (last.op = "deleteReview" /\ last.code = 200
          /\ ReviewsOf(last.pre.reviews, last.arg) \ reviews # {}
          /\ ReviewsOf(reviews, last.arg) = {})
         => (rating[last.arg] = 0 /\ reviewCount[last.arg] = 0)

\* an update left three reviews whose mean 5/3 is stored as 1.7
C10_Witness ==
  /\ InFlight = {}
  /\ last.op = "updateReview" /\ last.code = 200
  /\ Cardinality(ReviewsOf(reviews, "p1")) = 3
  /\ totalRating(ReviewsOf(reviews, "p1")) = 5
  /\ rating["p1"] = 17

C10_WitnessDeleted ==
  /\ last.op = "deleteReview" /\ last.code = 200
  /\ Cardinality(ReviewsOf(last.pre.reviews, last.arg)) = 1
  /\ reviews = {} /\ rating[last.arg] = 0 /\ reviewCount[last.arg] = 0

\* `last` describes a status request that found the order it names
StatusDone ==
  /\ last.op = "status"
  /\ last.oid \in DOMAIN last.pre.orders

OwnsProductOf(order, a) ==
  \E i \in DOMAIN order.items : Merchant[order.items[i].product] = a

\* C11: a merchant's status update of an order none of whose products is the
\* merchant's is answered 403 and leaves the orders as they were; a merchant
\* who owns a product of the order, and an admin on any order there is, get
\* 200 for every status of the enumeration, and the order has that status.
C11_MerchantStatusUpdate ==
  (StatusDone /\ last.arg \in OrderStatuses) =>
    LET order == last.pre.orders[last.oid] IN
      /\ (Role(last.user) = "merchant" /\ ~OwnsProductOf(order, last.user))
           => (last.code = 403 /\ orders = last.pre.orders)
      /\ (Role(last.user) = "admin"
            \/ (Role(last.user) = "merchant" /\ OwnsProductOf(order, last.user)))
           => (last.code = 200 /\ orders[last.oid].status = last.arg)

\* m1 was refused on an order of p2 only
C11_Witness ==
  /\ StatusDone /\ last.user = "m1" /\ last.code = 403
  /\ last.arg \in OrderStatuses
  /\ Len(last.pre.orders[last.oid].items) > 0

C11_WitnessOwner ==
  /\ StatusDone /\ last.user = "m1" /\ last.code = 200
  /\ orders[last.oid].status = "returned"

\* C5: the stock of every product is at least 0 in every state, whatever the
\* interleaving of order creations, cancellations and status updates.
C5_StockNonNegative == \A p \in Products : stock[p] >= 0

\* two creations in flight have both passed the stock check of one product
\* that cannot serve both
C5_Witness ==
  \E s, t \in Slots :
    /\ s # t
    /\ req[s].type = "create" /\ req[s].pc = "saveProduct"
    /\ req[t].type = "create" /\ req[t].pc = "saveProduct"
    /\ \E p \in Products :
         /\ req[s].items[req[s].i].product = p
         /\ req[t].items[req[t].i].product = p
         /\ req[s].items[req[s].i].quantity + req[t].items[req[t].i].quantity > stock[p]

\* ---- C12
\* the roles a gated route lets through
AllowedRoles(op) == IF op = "status" THEN {"admin", "merchant"} ELSE {"admin"}

GatedOps == UserRoutes \cup {"status"}

\* the role the caller had when the request arrived
CallerRole == last.pre.role[last.user]

Denied ==
  /\ last.op \in GatedOps
  /\ CallerRole \in UserRoles \ AllowedRoles(last.op)

\* C12: a caller whose role a gated route (order status update: admin or
\* merchant; list, update, delete users and admin stats: admin) does not allow
\* gets 403, no data, and every user, order and stock is as it was before.
C12_RoleGates ==
  Denied =>
    /\ last.code = 403
    /\ last.data = {}
    /\ role = last.pre.role
    /\ orders = last.pre.orders
    /\ stock = last.pre.stock
    /\ catalog = last.pre.catalog

\* a merchant is refused the deletion of a user that exists
C12_Witness ==
  /\ Denied /\ last.op = "deleteUser" /\ last.code = 403
  /\ CallerRole = "merchant" /\ last.arg # last.user
  /\ role[last.arg] # "gone"

\* a user is refused the status update of an order that exists
C12_WitnessStatus ==
  /\ Denied /\ last.op = "status" /\ last.code = 403
  /\ CallerRole = "user" /\ last.oid \in 1..Len(orders)
  /\ ValidStatus(last.arg)

\* ---- C13
\* the list holds only the caller's orders, or only orders with a product
\* of the merchant calling
ListScoped ==
  (last.op = "listOrders" /\ last.code = 200) =>
    /\ CallerRole = "user" => \A o \in last.data : orders[o].user = last.user
    /\ CallerRole = "merchant" => \A o \in last.data : OwnsProductOf(orders[o], last.user)

\* the order read by id is the owner's or the caller is an admin; everyone
\* else is answered 403
GetScoped ==
  (last.op = "getOrder" /\ last.oid \in 1..Len(orders) /\ CallerRole \in UserRoles) =>
    IF CallerRole = "admin" \/ orders[last.oid].user = last.user
    THEN last.code = 200 /\ last.data = {last.oid}
    ELSE last.code = 403 /\ last.data = {}

\* C13: the order list gives a user only the user's orders and a merchant
\* only orders with one of the merchant's products; an order is read by id
\* by its owner or an admin, and everyone else is answered 403.
C13_OrderReadsScoped == ListScoped /\ GetScoped

\* the part of C13 that holds: no order is disclosed out of scope
C13_NoOrderDisclosed ==
  /\ ListScoped
  /\ (last.op = "getOrder" /\ last.code = 200) =>
       (CallerRole = "admin" \/ orders[last.oid].user = last.user)

\* ---- C14
ProductDone ==
  /\ last.op \in ProductRoutes
  /\ last.pre.catalog[last.arg].exists
  /\ last.code # 400

\* the product as the request found it
ProductBefore == last.pre.catalog[last.arg]

\* C14: a merchant's update or delete of a product whose merchant is someone
\* else, or that has no merchant, is answered 403 and leaves products and
\* stock unchanged; a merchant's request on an own product and an admin's
\* request on any product are answered 200.
C14_MerchantOwnProducts ==
  ProductDone =>
    /\ (CallerRole = "merchant" /\ ProductBefore.merchant # last.user) =>
         /\ last.code = 403
         /\ catalog = last.pre.catalog
         /\ stock = last.pre.stock
    /\ (CallerRole = "admin"
          \/ (CallerRole = "merchant" /\ ProductBefore.merchant = last.user)) =>
         /\ last.code = 200
         /\ last.op = "deleteProduct" => ~catalog[last.arg].exists

\* m2 is refused the deletion of the product of m1
C14_Witness ==
  /\ ProductDone /\ last.op = "deleteProduct" /\ last.code = 403
  /\ CallerRole = "merchant" /\ ProductBefore.merchant \in Merchants \ {last.user}

\* a merchant is refused the update of a product without merchant
C14_WitnessNoMerchant ==
  /\ ProductDone /\ last.op = "updateProduct" /\ last.code = 403
  /\ CallerRole = "merchant" /\ ProductBefore.merchant = NoMerchant

\* a merchant deletes an own product
C14_WitnessOwn ==
  /\ ProductDone /\ last.op = "deleteProduct" /\ last.code = 200
  /\ CallerRole = "merchant" /\ ProductBefore.merchant = last.user

\* ---- C15
\* a guest's provider has loaded and holds in memory what the storage holds
GuestStored == (~isAuth /\ ~client.isLoading) => storage = client.items

\* C15: in a guest session, once the cart has loaded, localStorage 'cart'
\* holds the in-memory items after every cart action; in an authenticated
\* session no step writes the storage.
C15_GuestCartPersisted ==
  /\ []GuestStored
  /\ [][isAuth => storage' = storage]_vars

\* a guest has added a line and the storage holds it
C15_Witness ==
  /\ ~isAuth /\ ~client.isLoading
  /\ last.op = "ADD_ITEM"
  /\ client.items # <<>> /\ storage = client.items

\* an authenticated session changed its items and the storage kept an
\* earlier guest's line
C15_WitnessAuth ==
  /\ isAuth /\ ~client.isLoading
  /\ client.items # storage /\ storage # <<>>

\* ---- C16
AllAtLeastOne(items) == \A i \in DOMAIN items : items[i].quantity >= 1

\* C16: every line of every server cart and of the guest's client cart has
\* quantity >= 1; an add or update request with quantity < 1 is answered 400
\* with the cart unchanged, and the reducer's update to a quantity <= 0
\* removes the line.
C16_QuantityAtLeastOne ==
  /\ \A u \in Users : AllAtLeastOne(cart[u].items)
  /\ ~isAuth => AllAtLeastOne(client.items)
  /\ (last.op \in {"add", "update"} /\ last.add.quantity < 1) =>
       (last.code = 400 /\ cart = last.pre.cart)
  /\ (~isAuth /\ last.op = "UPDATE_QUANTITY" /\ last.add.quantity <= 0) =>
       \A i \in DOMAIN client.items : client.items[i].id # last.add.product

\* an add of quantity 0 to a cart with a line was rejected
C16_Witness ==
  /\ last.op = "add" /\ last.add.quantity < 1 /\ last.code = 400
  /\ last.add.product \in Products
  /\ cart[last.user].items # <<>>

\* the guest's update to quantity 0 removed a line
C16_WitnessGuest ==
  /\ ~isAuth /\ last.op = "UPDATE_QUANTITY" /\ last.add.quantity = 0
  /\ Len(client.items) < Len(last.pre.cart)

\* ---- C17
\* the owner's cancel of an order that exists
OwnerCancel ==
  /\ last.op = "cancel"
  /\ last.oid \in DOMAIN last.pre.orders
  /\ last.pre.orders[last.oid].user = last.user

\* C17: a cancel succeeds only when the order's status is pending; for every
\* other status it is rejected, and orders and stock are as they were.
C17_CancelOnlyPending ==
  OwnerCancel =>
    IF last.pre.orders[last.oid].status = "pending"
    THEN last.code = 200 /\ orders[last.oid].status = "cancelled"
    ELSE /\ last.code = 400
         /\ orders = last.pre.orders
         /\ stock = last.pre.stock

\* what the code does: the statuses it rejects are cancelled, delivered and
\* shipped
C17_CancelAsCoded ==
  OwnerCancel =>
    IF last.pre.orders[last.oid].status \in CancelRejected
    THEN last.code = 400 /\ orders = last.pre.orders /\ stock = last.pre.stock
    ELSE last.code = 200 /\ orders[last.oid].status = "cancelled"

\* ---- C18
AdminStatusDone == StatusDone /\ CallerRole = "admin"

\* C18: the status has no transition edges: an admin's update to a status of
\* the enumeration is answered 200 and the order has that status, whatever
\* its status was; a value outside the enumeration is answered 400 and the
\* orders are unchanged; every order's status is of the enumeration.
C18_NoTransitionEdges ==
  /\ \A o \in DOMAIN orders : orders[o].status \in OrderStatuses
  /\ AdminStatusDone =>
       IF last.arg \in OrderStatuses
       THEN last.code = 200 /\ orders[last.oid].status = last.arg
       ELSE last.code = 400 /\ orders = last.pre.orders

\* the admin moved a delivered order back to pending
C18_Witness ==
  /\ AdminStatusDone /\ last.code = 200
  /\ last.pre.orders[last.oid].status = "delivered"
  /\ orders[last.oid].status = "pending"

\* a value outside the enumeration was refused
C18_WitnessRefused ==
  /\ AdminStatusDone /\ last.arg \notin OrderStatuses /\ last.code = 400

\* ---- C19
\* the quantity of p the orders hold together
RECURSIVE Ordered(_, _)
Ordered(os, p) ==
  IF os = <<>> THEN 0 ELSE QuantityOf(Head(os).items, p) + Ordered(Tail(os), p)

\* C19: every order persisted passed the stock check (each order's quantity
\* of a product is at most the initial stock), although two interleaved
\* creations both pass it and the orders together hold more than the stock.
C19_EachOrderPassedCheck ==
  \A o \in DOMAIN orders, p \in Products :
    QuantityOf(orders[o].items, p) <= stock0[p]

\* two orders are persisted whose quantities of one product exceed the
\* initial stock together
C19_Witness ==
  /\ Len(orders) = 2
  /\ \E p \in Products :
       /\ QuantityOf(orders[1].items, p) >= 1
       /\ QuantityOf(orders[2].items, p) >= 1
       /\ Ordered(orders, p) > stock0[p]

\* ---- C20
\* the rating stored for p is the mean of its reviews rounded to one decimal
RatingMatches(p) ==
  LET docs == ReviewsOf(reviews, p)
      n == Cardinality(docs)
  IN /\ reviewCount[p] = n
     /\ rating[p] = IF n = 0 THEN 0 ELSE RoundedRating(totalRating(docs), n)

\* C20: once every interleaved review creation and deletion has completed,
\* the reviewCount and the rating of every product are the count and the
\* rounded mean of the reviews then stored.
C20_RecomputeAfterInterleaving ==
  InFlight = {} => \A p \in Products : RatingMatches(p)

\* ---- C21
\* an order without its status
Snapshot(order) == [order EXCEPT !.status = "-"]

\* C21: no step changes the items (product, quantity, price) or the
\* subtotal, discount, shipping, tax and total of an order that exists:
\* not a status update, not a cancellation, not a change of a product's
\* price, not a change of the owner's cart.
C21_OrderIsSnapshot ==
  [][\A o \in DOMAIN orders :
       o \in DOMAIN orders' /\ Snapshot(orders'[o]) = Snapshot(orders[o])]_vars

\* a cancelled order whose product has another price now, its owner's cart
\* filled again
C21_Witness ==
  /\ Len(orders) >= 1
  /\ orders[1].status = "cancelled"
  /\ \E i \in DOMAIN orders[1].items :
       ProductPrice(orders[1].items[i].product) # orders[1].items[i].price
  /\ cart[orders[1].user].items # <<>>

\* ---- C22
\* a successful server add of a product and variant that had no line
AddedWithoutLine ==
  /\ last.op = "add" /\ last.code = 200
  /\ LinesOf(last.pre.cart[last.user].items, last.add.product, last.add.variant) = {}

\* C22: a server add merges only into a line whose product and variant are
\* the request's; when there is no such line (a request without variant
\* while the product's only line carries a variant included) a line is
\* appended and the lines there were keep their quantities.
C22_AddMergesOnlyEqualLine ==
  AddedWithoutLine =>
    cart[last.user].items =
      Append(last.pre.cart[last.user].items,
             [product |-> last.add.product, variant |-> last.add.variant,
              quantity |-> last.add.quantity])

\* what the code does for a request with a variant: it merges into the line
\* of that product and variant, or appends
C22_VariantAddAsCoded ==
  (AddedWithoutLine /\ last.add.variant # NoVariant) =>
    cart[last.user].items =
      Append(last.pre.cart[last.user].items,
             [product |-> last.add.product, variant |-> last.add.variant,
              quantity |-> last.add.quantity])

\* ---- C23
\* C23: whatever cancels and status updates an order goes through, what is
\* added back to a product's stock is at most what the creations deducted:
\* the stock of a product never exceeds its initial stock.
C23_RestoredAtMostOnce == \A p \in Products : stock[p] <= stock0[p]

\* ---- C24
\* the step is the end of a recompute
Recomputed == \E s \in Slots : req[s].pc = "hookUpdate" /\ req'[s].type = "idle"

\* C24: the rating and the reviewCount of a product change only in the
\* recompute that follows a review request: no product create or update and
\* no order operation changes them.
C24_DerivedFieldsOnlyRecomputed ==
  [][(rating' # rating \/ reviewCount' # reviewCount) => Recomputed]_vars

\* the order operations leave the derived fields alone
C24_OrdersKeepDerivedFields ==
  [][(\E s \in Slots : req[s].type \in {"create", "cancel"})
       => (rating' = rating /\ reviewCount' = reviewCount)]_vars

\* ---- C25
\* the orders that contain one of the merchant's products
MerchantOrders(m) == {o \in 1..Len(orders) : HasMerchantProduct(orders[o], m)}

\* the pages of the list, at a limit, that hold the order
PagesHolding(m, limit, o) == {page \in Pages : o \in Range(PageOrders(m, page, limit))}

\* C25: for a merchant, the pages 1, 2, ... of the order list at a fixed
\* limit hold every order with one of the merchant's products exactly once,
\* and pagination.total is the number of those orders.
C25_MerchantPagesPartition ==
  /\ \A m \in Merchants, limit \in PageLimits :
       \A o \in MerchantOrders(m) : Cardinality(PagesHolding(m, limit, o)) = 1
  /\ (last.op = "listOrders" /\ last.code = 200 /\ Role(last.user) = "merchant")
       => last.total = Cardinality(MerchantOrders(last.user))

\* no page holds an order without a product of the merchant
C25_PagesHoldOwnOrders ==
  \A m \in Merchants, limit \in PageLimits, page \in Pages :
    Range(PageOrders(m, page, limit)) \subseteq MerchantOrders(m)

\* ---- C26
\* the lines of the provider's cart for a product and variant
ClientLines(p, v) ==
  {i \in DOMAIN client.items :
     client.items[i].product = p /\ client.items[i].variant = v}

\* isInCart and getItemQuantity tell of the product's line
HelpersTellLine(p, v) ==
  /\ isInCart(p, v) <=> ClientLines(p, v) # {}
  /\ IF ClientLines(p, v) = {} THEN getItemQuantity(p, v) = 0
     ELSE \E i \in ClientLines(p, v) : getItemQuantity(p, v) = client.items[i].quantity

\* C26: in the loaded provider, a guest's or an authenticated user's,
\* isInCart(product, variant) is true exactly when the cart holds a line
\* for the product and variant, and getItemQuantity is that line's quantity,
\* 0 when there is none.
C26_HelpersTellLine ==
  ~client.isLoading =>
    \A p \in Products : \A v \in VariantInputs(p) : HelpersTellLine(p, v)

\* the helpers are right in a guest's session
C26_GuestHelpersTellLine ==
  (~client.isLoading /\ ~isAuth) =>
    \A p \in Products : \A v \in VariantInputs(p) : HelpersTellLine(p, v)

\* ---- C27
\* no login, register, logout or startup verification is in flight
AuthSettled == auth.pc = "idle"

\* localStorage holds both auth_token and user
StoredSession == auth.auth_token # NoUser /\ auth.stored # NoUser

\* C27: in every settled state of the auth provider isAuthenticated is true
\* exactly when localStorage holds both auth_token and user, also after a
\* failed login of a visitor who is signed in and after a logout whose API
\* call failed.
C27_StateAgreesWithStorage == AuthSettled => (isAuth <=> StoredSession)

\* a logout, whatever the API call returned, leaves the visitor signed out
\* and the storage without a session
C27_LogoutAgrees ==
  (AuthSettled /\ auth.done = "logout") => (~isAuth /\ ~StoredSession)

\* a visitor the provider shows as signed in has a stored session
C27_SignedInIsStored == (AuthSettled /\ isAuth) => StoredSession

\* ---- C28
\* C28: the amount of the checkout's Pay button (finalTotal) is the total of
\* the order the checkout creates, with the standard and with the express
\* method, for subtotals below 100 and from 100 on.
C28_PayButtonIsOrderTotal == Placed => last.shown = orders[last.oid].total

\* the order of a checkout carries the server's shipping, whatever the method
C28_OrderShippingIgnoresMethod ==
  Placed => orders[last.oid].shipping =
              (IF orders[last.oid].subtotal >= Cents(10000) THEN 0 ELSE Cents(999))

\* ---- C29
\* C29: localStorage 'cart' is not written before the provider's initial load
\* has completed, so the cart an earlier guest session saved is not replaced
\* by the provider's initial empty items, in whichever order the load and
\* the persist effect run, with and without a session at startup.
C29_NoWriteBeforeLoad == [][client.isLoading => storage' = storage]_vars

\* a visitor with a stored session and a saved guest cart: the session was
\* verified, the cart of the server loaded, and the saved cart is in place
C29_Witness ==
  /\ isAuth /\ client.seen /\ ~client.isLoading
  /\ auth.done = "mount"
  /\ storage # <<>>

\* a guest's provider shows the saved cart once it has loaded
C29_GuestLoadsSaved ==
  [][(client.isLoading /\ ~client'.isLoading /\ ~isAuth) =>
       (client'.items = storage /\ storage' = storage)]_vars

\* ---- C30
NoDuplicates(items) == \A i, j \in DOMAIN items : items[i] = items[j] => i = j

\* an add of a product the wishlist held is answered 400 and changes nothing
PresentAddRejected ==
  (last.op = "wishAdd" /\ InWishlist(last.pre.wishlist[last.user], last.arg))
    => (last.code = 400 /\ wishlist = last.pre.wishlist)

\* C30: after any adds and removes, of the server's wishlist route and of
\* the client's wishlist reducer, a wishlist holds each product at most once;
\* an add of a product that is there leaves the list as it is (the server
\* answers 400), also when two adds of the product are processed at once.
C30_WishlistAtMostOnce ==
  /\ \A u \in Users : NoDuplicates(wishlist[u])
  /\ NoDuplicates(wish)
  /\ PresentAddRejected

\* the reducer's list holds each product at most once
C30_ReducerAtMostOnce == NoDuplicates(wish)

\* an add of a product that the wishlist holds when the request arrives is
\* rejected
C30_PresentAddRejected == PresentAddRejected

====
